---- MODULE Spec2Model ----
(***************************************************************************)
(* Media profiling and validation engine of check_media.py, its command    *)
(* line, and the GUI of videocheck_gui.py: the worker that runs the engine  *)
(* per file, the main window's events, and the reading of the report.      *)
(*                                                                         *)
(* Representation of Python values:                                        *)
(*   - a str is a tuple of one-character strings, so that lower(), strip(),*)
(*     split(","), startswith() and substring search are computed;         *)
(*   - every value that may be None or of several types is a tagged record *)
(*     [t |-> tag, v |-> payload] with tags "none", "bool", "int", "float",*)
(*     "str", "list", "map" (the values json.loads can produce), "tuple";  *)
(*   - a float is a fixed-point number: the integer count of 1/Scale;      *)
(*   - an operation that may raise returns [exc |-> name] instead of its   *)
(*     value; a value that is not an exception has exc = NoExc.            *)
(***************************************************************************)
EXTENDS Integers, Sequences, FiniteSets, TLC

VARIABLES
    pc,             \* position of the run: "start", then "built", "validated", "sniffed", ...
    file,           \* the input file: [exists, readable, data]
    hash_algo,      \* the requested digest name (a str)
    decoder,        \* what the decoder does for the file (see decode_video_info)
    built,          \* what build_media_profile returned or raised, with the collaborators it called
    media_profile,  \* the profile handed to validate_full
    profile_spec,   \* the target values handed to validate_full (any JSON value)
    validation,     \* what validate_full returned or raised
    sniffed,        \* what sniff_container returned or raised
    arg,            \* the argument of a helper function called on its own
    ret,            \* what that helper returned
    active_profile, \* MainWindow.active_profile: the path of the target values, or None
    profile_file,   \* the target-values file: "missing", "unparseable" or "json"
    code,           \* the exit code Worker.run_check reports for the file
    status_label,   \* the status MainWindow.update_result shows for the file
    report_file,    \* the validation report beside the input file: None or its content
    payload,        \* the payload Worker.run_check returns for the file
    files,          \* MainWindow.files: the list of paths, shared with every Worker
    rows,           \* the rows of the table: [path, status]
    btn_run,        \* whether the button 'Prüfen' is enabled
    worker,         \* MainWindow.worker: the Worker last created, or None
    threads,        \* the Worker threads started: [state, idx] per worker
    events,         \* the signals queued for the GUI thread, oldest first
    check_media     \* whether the file check_media.py is where the GUI looks for it

\* The state of the main window.
window == <<files, rows, btn_run, worker, threads, events, check_media>>

vars == <<pc, file, hash_algo, decoder, built, media_profile, profile_spec, validation, sniffed, arg, ret,
          active_profile, profile_file, code, status_label, report_file, payload, window>>

\* Resolution of the fixed-point floats of the model (three decimals).
Scale == 10 * 10 * 10

---------------------------------------------------------------------------
\* Python values

None == [t |-> "none"]
PyBool(b) == [t |-> "bool", v |-> b]
PyInt(n) == [t |-> "int", v |-> n]
PyFloat(u) == [t |-> "float", v |-> u]
PyStr(s) == [t |-> "str", v |-> s]
PyList(l) == [t |-> "list", v |-> l]
PyMap(m) == [t |-> "map", v |-> m]

EmptyMap == PyMap([k \in {} |-> None])

IsNone(x) == x.t = "none"
IsStr(x) == x.t = "str"
IsList(x) == x.t = "list"
IsDict(x) == x.t = "map"

\* The value of a number in units of 1/Scale.
AsFixed(x) == IF x.t = "int" THEN x.v * Scale ELSE x.v

\* Python truthiness (`x or y`, `if x:`).
Truthy(x) ==
    CASE x.t = "none" -> FALSE
      [] x.t = "bool" -> x.v
      [] x.t = "int" -> x.v # 0
      [] x.t = "float" -> x.v # 0
      [] x.t = "str" -> Len(x.v) > 0
      [] x.t = "list" -> Len(x.v) > 0
      [] x.t = "tuple" -> Len(x.v) > 0
      [] x.t = "map" -> DOMAIN x.v # {}

\* dict.get(key, default) on a map value.
Get(m, k, default) == IF k \in DOMAIN m.v THEN m.v[k] ELSE default

\* What a dict does not hold: the value of a missing key.
Absent == [t |-> "absent"]

\* A value of the run that is not computed yet.
Idle == None

\* No main window is open (the operation runs on its own).
NoWindow ==
    /\ files = Idle /\ rows = Idle /\ btn_run = Idle
    /\ worker = Idle /\ threads = Idle /\ events = Idle /\ check_media = Idle

NoExc == "none"
Raise(e) == [exc |-> e]
Raised(r) == r.exc # NoExc

---------------------------------------------------------------------------
\* str operations

\* The character U+221E (the infinity sign of the range info).
InfSign == "oo"

Digits == <<"0", "1", "2", "3", "4", "5", "6", "7", "8", "9">>
IsDigit(c) == \E i \in 1..10 : Digits[i] = c
DigitVal(c) == (CHOOSE i \in 1..10 : Digits[i] = c) - 1

Upper == <<"A","B","C","D","E","F","G","H","I","J","K","L","M","N","O","P","Q","R","S","T","U","V","W","X","Y","Z","Ä","Ö","Ü">>
LowerLetters == <<"a","b","c","d","e","f","g","h","i","j","k","l","m","n","o","p","q","r","s","t","u","v","w","x","y","z","ä","ö","ü">>
LowerChar(c) ==
    IF \E i \in 1..Len(Upper) : Upper[i] = c
    THEN LowerLetters[CHOOSE i \in 1..Len(Upper) : Upper[i] = c]
    ELSE c

\* str.lower()
lower(s) == [i \in 1..Len(s) |-> LowerChar(s[i])]

IsSpace(c) == c \in {" ", "\t", "\n", "\r"}

\* str.strip()
strip(s) ==
    LET keep == {i \in 1..Len(s) : ~IsSpace(s[i])}
    IN  IF keep = {} THEN << >>
        ELSE LET a == CHOOSE i \in keep : \A j \in keep : i <= j
                 b == CHOOSE i \in keep : \A j \in keep : j <= i
             IN  SubSeq(s, a, b)

\* str.startswith(prefix)
startswith(s, prefix) ==
    Len(prefix) <= Len(s) /\ SubSeq(s, 1, Len(prefix)) = prefix

\* `needle in s`
contains(s, needle) ==
    \E i \in 1..(Len(s) - Len(needle) + 1) :
        SubSeq(s, i, i + Len(needle) - 1) = needle

\* str.split(sep) for a one-character separator: always at least one piece.
RECURSIVE split(_, _)
split(s, sep) ==
    LET cuts == {i \in 1..Len(s) : s[i] = sep}
    IN  IF cuts = {} THEN <<s>>
        ELSE LET c == CHOOSE i \in cuts : \A j \in cuts : i <= j
             IN  <<SubSeq(s, 1, c - 1)>> \o split(SubSeq(s, c + 1, Len(s)), sep)

\* sep.join(parts)
RECURSIVE join(_, _)
join(sep, parts) ==
    IF Len(parts) = 0 THEN << >>
    ELSE IF Len(parts) = 1 THEN parts[1]
    ELSE parts[1] \o sep \o join(sep, Tail(parts))

\* str(n) for a non-negative int
RECURSIVE NatText(_)
NatText(n) ==
    IF n < 10 THEN <<Digits[n + 1]>>
    ELSE NatText(n \div 10) \o <<Digits[(n % 10) + 1]>>

IntText(n) == IF n < 0 THEN <<"-">> \o NatText(0 - n) ELSE NatText(n)

\* The decimals of a fraction given in 1/Scale, without trailing zeros and
\* with at least one digit, as repr(float) prints them.
RECURSIVE FracText(_, _)
FracText(f, unit) ==
    IF unit = 1 THEN << >>
    ELSE LET d == (f * 10) \div unit
             rest == (f * 10) % unit
         IN  <<Digits[d + 1]>> \o (IF rest = 0 THEN << >> ELSE FracText(rest, unit))

\* str(x) of a float in the range where repr uses positional notation.
FloatText(u) ==
    LET a == IF u < 0 THEN 0 - u ELSE u
    IN  (IF u < 0 THEN <<"-">> ELSE << >>)
        \o NatText(a \div Scale) \o <<".">> \o FracText(a % Scale, Scale)

\* str(x) / f"{x}" of a scalar value
str(x) ==
    CASE x.t = "str" -> x.v
      [] x.t = "int" -> IntText(x.v)
      [] x.t = "float" -> FloatText(x.v)
      [] x.t = "none" -> <<"N","o","n","e">>
      [] x.t = "bool" -> IF x.v THEN <<"T","r","u","e">> ELSE <<"F","a","l","s","e">>

\* int(text) of a run of digits
RECURSIVE DigitsVal(_)
DigitsVal(s) ==
    IF Len(s) = 0 THEN 0
    ELSE DigitsVal(SubSeq(s, 1, Len(s) - 1)) * 10 + DigitVal(s[Len(s)])

\* float(x): the fixed-point value, or the exception float() raises.
\* Of the texts float() accepts, the model has signed decimal numerals.
IsNumeral(s) ==
    LET body == IF Len(s) > 0 /\ s[1] \in {"+", "-"} THEN Tail(s) ELSE s
        dots == {i \in 1..Len(body) : body[i] = "."}
    IN  /\ Cardinality(dots) <= 1
        /\ \A i \in 1..Len(body) : IsDigit(body[i]) \/ body[i] = "."
        /\ \E i \in 1..Len(body) : IsDigit(body[i])

\* The value, in 1/unit, of the decimals after the point (cut at the resolution).
RECURSIVE FracVal(_, _)
FracVal(s, unit) ==
    IF Len(s) = 0 \/ unit = 1 THEN 0
    ELSE DigitVal(s[1]) * (unit \div 10) + FracVal(Tail(s), unit \div 10)

NumeralVal(s) ==
    LET neg == Len(s) > 0 /\ s[1] = "-"
        body == IF Len(s) > 0 /\ s[1] \in {"+", "-"} THEN Tail(s) ELSE s
        dots == {i \in 1..Len(body) : body[i] = "."}
        d == IF dots = {} THEN Len(body) + 1 ELSE CHOOSE i \in dots : TRUE
        whole == DigitsVal(SubSeq(body, 1, d - 1))
        mag == whole * Scale + FracVal(SubSeq(body, d + 1, Len(body)), Scale)
    IN  IF neg THEN 0 - mag ELSE mag

float(x) ==
    CASE x.t = "int" -> [exc |-> NoExc, v |-> x.v * Scale]
      [] x.t = "float" -> [exc |-> NoExc, v |-> x.v]
      [] x.t = "bool" -> [exc |-> NoExc, v |-> IF x.v THEN Scale ELSE 0]
      [] x.t = "str" ->
            IF IsNumeral(strip(x.v))
            THEN [exc |-> NoExc, v |-> NumeralVal(strip(x.v))]
            ELSE Raise("ValueError")
      [] OTHER -> Raise("TypeError")

---------------------------------------------------------------------------
\* Container sniffing (bytes are integers 0..255, a file's data a tuple of bytes)

B(s) == [i \in 1..Len(s) |->
            CASE s[i] = "f" -> 102 [] s[i] = "t" -> 116 [] s[i] = "y" -> 121
              [] s[i] = "p" -> 112 [] s[i] = "R" -> 82  [] s[i] = "I" -> 73
              [] s[i] = "F" -> 70  [] s[i] = "A" -> 65  [] s[i] = "V" -> 86
              [] s[i] = " " -> 32  [] s[i] = "W" -> 87  [] s[i] = "E" -> 69
              [] s[i] = "O" -> 79  [] s[i] = "g" -> 103 [] s[i] = "S" -> 83]

SyncByte == 71
TsPacket == 188
TsPackets == 5
HeadLen == 4096
FtypWindow == 64
MinSniffSize == 4
RiffMinLen == 12

MAGIC_MAP == <<
    [sig |-> <<26, 69, 223, 163>>, name |-> <<"m","a","t","r","o","s","k","a","/","w","e","b","m">>],
    [sig |-> B(<<"R","I","F","F">>), name |-> <<"a","v","i","/","w","a","v","/","r","i","f","f">>],
    [sig |-> B(<<"O","g","g","S">>), name |-> <<"o","g","g">>],
    [sig |-> <<SyncByte>>, name |-> <<"m","p","e","g","-","t","s">>] >>

\* buf[:n]
Prefix(buf, n) == SubSeq(buf, 1, IF n < Len(buf) THEN n ELSE Len(buf))

\* A variant that looks for the sync bytes at packet offset 0 only.
_looks_like_mpeg_ts_at_zero(buf) ==
    IF Len(buf) < TsPacket * TsPackets THEN FALSE
    ELSE \A i \in 0..(TsPackets - 1) : buf[TsPacket * i + 1] = SyncByte

_looks_like_mpeg_ts(buf) ==
    IF Len(buf) < TsPacket * TsPackets THEN FALSE
    ELSE \E off \in 0..(TsPacket - 1) :
            \A i \in 0..(TsPackets - 1) :
                LET idx == off + TsPacket * i
                IN  ~(idx >= Len(buf)) /\ buf[idx + 1] = SyncByte

\* The first entry of MAGIC_MAP that the loop returns for head, 0 if none.
MagicHit(head) ==
    LET hits == {k \in 1..Len(MAGIC_MAP) :
                    /\ startswith(head, MAGIC_MAP[k].sig)
                    /\ ~(MAGIC_MAP[k].name = <<"m","p","e","g","-","t","s">> /\ ~_looks_like_mpeg_ts(head))}
    IN  IF hits = {} THEN 0 ELSE CHOOSE k \in hits : \A j \in hits : k <= j

\* A variant that looks for the box type only at offset 4, where a well-formed
\* MP4 has it.
HasFtyp_at_offset_4(head) ==
    Len(head) >= 8 /\ SubSeq(head, 5, 8) = B(<<"f","t","y","p">>)

\* A variant that searches the whole buffer read, not only its first 64 bytes.
HasFtyp_anywhere(head) == contains(head, B(<<"f","t","y","p">>))

\* b"ftyp" in head[:64]
HasFtyp(head) == contains(Prefix(head, FtypWindow), B(<<"f","t","y","p">>))

\* A variant that tests only whether the path exists.
Unsniffable_missing_only(f) == ~f.exists

\* not path.exists() or path.stat().st_size < 4
Unsniffable(f) == ~f.exists \/ Len(f.data) < MinSniffSize

sniff_container(f) ==
    IF Unsniffable(f) THEN [exc |-> NoExc, v |-> <<"u","n","k","n","o","w","n">>]
    ELSE IF ~f.readable THEN Raise("OSError")
    ELSE LET head == Prefix(f.data, HeadLen)
             fourcc == SubSeq(head, 9, 12)
         IN  IF HasFtyp(head)
                 THEN [exc |-> NoExc, v |-> <<"m","p","4","/","m","o","v">>]
             ELSE IF startswith(head, B(<<"R","I","F","F">>)) /\ Len(head) >= RiffMinLen
                     /\ fourcc = B(<<"A","V","I"," ">>)
                 THEN [exc |-> NoExc, v |-> <<"a","v","i">>]
             ELSE IF startswith(head, B(<<"R","I","F","F">>)) /\ Len(head) >= RiffMinLen
                     /\ fourcc = B(<<"W","A","V","E">>)
                 THEN [exc |-> NoExc, v |-> <<"w","a","v">>]
             ELSE IF MagicHit(head) # 0
                 THEN [exc |-> NoExc, v |-> MAGIC_MAP[MagicHit(head)].name]
             ELSE IF _looks_like_mpeg_ts(head)
                 THEN [exc |-> NoExc, v |-> <<"m","p","e","g","-","t","s">>]
             ELSE [exc |-> NoExc, v |-> <<"u","n","k","n","o","w","n">>]

---------------------------------------------------------------------------
\* Pixel format -> colour model / bit depth

KNOWN_8BIT_NO_NUMBER == {
    <<"y","u","v","4","2","0","p">>, <<"y","u","v","4","2","2","p">>, <<"y","u","v","4","4","4","p">>, <<"y","u","v","j","4","2","0","p">>, <<"y","u","v","j","4","2","2","p">>, <<"y","u","v","j","4","4","4","p">>,
    <<"n","v","1","2">>, <<"n","v","2","1">>, <<"r","g","b","a">>, <<"b","g","r","a">>, <<"a","r","g","b">>, <<"a","b","g","r">>, <<"g","b","r","p">>, <<"g","b","r","a","p">>,
    <<"p","a","l","8">>, <<"g","r","a","y">>, <<"y","a","8">> }

StartsWithAny(s, prefixes) == \E p \in prefixes : startswith(s, p)

\* A variant that tests the prefixes on the name as given, without lower-casing it.
classify_farbraum_case_sensitive(pix_fmt) ==
    LET s == pix_fmt
    IN  IF StartsWithAny(s, {<<"r","g","b">>, <<"b","g","r">>, <<"g","b","r">>}) THEN <<"R","G","B">>
        ELSE IF StartsWithAny(s, {<<"g","r","a","y">>, <<"y","a">>}) THEN <<"G","R","A","Y">>
        ELSE IF StartsWithAny(s, {<<"y","u","v">>, <<"n","v">>, <<"u","y","v","y">>, <<"y","u","y","v">>, <<"p","0">>, <<"p","1">>}) THEN <<"Y","U","V">>
        ELSE <<"U","N","K","N","O","W","N">>

classify_farbraum(pix_fmt) ==
    LET s == lower(pix_fmt)
    IN  IF StartsWithAny(s, {<<"r","g","b">>, <<"b","g","r">>, <<"g","b","r">>}) THEN <<"R","G","B">>
        ELSE IF StartsWithAny(s, {<<"g","r","a","y">>, <<"y","a">>}) THEN <<"G","R","A","Y">>
        ELSE IF StartsWithAny(s, {<<"y","u","v">>, <<"n","v">>, <<"u","y","v","y">>, <<"y","u","y","v">>, <<"p","0">>, <<"p","1">>}) THEN <<"Y","U","V">>
        ELSE <<"U","N","K","N","O","W","N">>

\* re.search(r"(\d{2})", s): the leftmost two adjacent digits, << >> if none.
TwoDigits(s) ==
    LET at == {i \in 1..(Len(s) - 1) : IsDigit(s[i]) /\ IsDigit(s[i + 1])}
    IN  IF at = {} THEN << >>
        ELSE LET i == CHOOSE i \in at : \A j \in at : i <= j
             IN  SubSeq(s, i, i + 1)

\* A variant without the final default of 8.
bitdepth_without_default(pix_fmt) ==
    IF Len(pix_fmt) = 0 THEN None
    ELSE LET s == lower(pix_fmt)
             m == TwoDigits(s)
         IN  IF s \in KNOWN_8BIT_NO_NUMBER THEN PyInt(8)
             ELSE IF contains(s, <<"p","0","1","0">>) THEN PyInt(10)
             ELSE IF contains(s, <<"p","0","1","6">>) THEN PyInt(16)
             ELSE IF m # << >> THEN
                     IF s \in {<<"r","g","b","2","4">>, <<"b","g","r","2","4">>} THEN PyInt(8)
                     ELSE IF StartsWithAny(s, {<<"r","g","b","a","6","4">>, <<"b","g","r","a","6","4">>, <<"a","r","g","b","6","4">>, <<"a","b","g","r","6","4">>})
                         THEN PyInt(16)
                     ELSE IF StartsWithAny(s, {<<"r","g","b","4","8">>, <<"b","g","r","4","8">>}) THEN PyInt(16)
                     ELSE PyInt(DigitsVal(m))
             ELSE None

\* A variant that searches for the two digits before it looks for p010 / p016.
bitdepth_digits_first(pix_fmt) ==
    IF Len(pix_fmt) = 0 THEN None
    ELSE LET s == lower(pix_fmt)
             m == TwoDigits(s)
         IN  IF s \in KNOWN_8BIT_NO_NUMBER THEN PyInt(8)
             ELSE IF m # << >> THEN
                     IF s \in {<<"r","g","b","2","4">>, <<"b","g","r","2","4">>} THEN PyInt(8)
                     ELSE IF StartsWithAny(s, {<<"r","g","b","a","6","4">>, <<"b","g","r","a","6","4">>, <<"a","r","g","b","6","4">>, <<"a","b","g","r","6","4">>})
                         THEN PyInt(16)
                     ELSE IF StartsWithAny(s, {<<"r","g","b","4","8">>, <<"b","g","r","4","8">>}) THEN PyInt(16)
                     ELSE PyInt(DigitsVal(m))
             ELSE IF contains(s, <<"p","0","1","0">>) THEN PyInt(10)
             ELSE IF contains(s, <<"p","0","1","6">>) THEN PyInt(16)
             ELSE PyInt(8)

bitdepth_from_pixfmt(pix_fmt) ==
    IF Len(pix_fmt) = 0 THEN None
    ELSE LET s == lower(pix_fmt)
             m == TwoDigits(s)
         IN  IF s \in KNOWN_8BIT_NO_NUMBER THEN PyInt(8)
             ELSE IF contains(s, <<"p","0","1","0">>) THEN PyInt(10)
             ELSE IF contains(s, <<"p","0","1","6">>) THEN PyInt(16)
             ELSE IF m # << >> THEN
                     IF s \in {<<"r","g","b","2","4">>, <<"b","g","r","2","4">>} THEN PyInt(8)
                     ELSE IF StartsWithAny(s, {<<"r","g","b","a","6","4">>, <<"b","g","r","a","6","4">>, <<"a","r","g","b","6","4">>, <<"a","b","g","r","6","4">>})
                         THEN PyInt(16)
                     ELSE IF StartsWithAny(s, {<<"r","g","b","4","8">>, <<"b","g","r","4","8">>}) THEN PyInt(16)
                     ELSE PyInt(DigitsVal(m))
             ELSE PyInt(8)

---------------------------------------------------------------------------
\* CFR/VFR detection (timestamps are floats in 1/Scale seconds)

TolRelPermille == 5
MinRatioPercent == 95
MinTimestamps == 3

RECURSIVE Sum(_)
Sum(xs) == IF Len(xs) = 0 THEN 0 ELSE xs[1] + Sum(Tail(xs))

\* A variant that averages: twice the arithmetic mean, rounded down.
Mean2(xs) == (2 * Sum(xs)) \div Len(xs)

\* Twice statistics.median of a non-empty tuple (twice, to stay in the integers).
Median2(xs) ==
    LET n == Len(xs)
        \* rank[i]: the position of xs[i] in sorted order, ties broken by index
        rank == [i \in 1..n |->
                    Cardinality({j \in 1..n : xs[j] < xs[i] \/ (xs[j] = xs[i] /\ j < i)}) + 1]
        at(k) == xs[CHOOSE i \in 1..n : rank[i] = k]
    IN  IF n % 2 = 1 THEN 2 * at((n + 1) \div 2)
        ELSE at(n \div 2) + at(n \div 2 + 1)

Abs(x) == IF x < 0 THEN 0 - x ELSE x

\* A variant that asks for two timestamps only.
TooFewTimestamps_below_two(pts_sec) == Len(pts_sec) < MinTimestamps - 1

\* len(pts_sec) < 3
TooFewTimestamps(pts_sec) == Len(pts_sec) < MinTimestamps

detect_frame_rate_mode(pts_sec) ==
    IF TooFewTimestamps(pts_sec) THEN None
    ELSE LET idx == {i \in 2..Len(pts_sec) : pts_sec[i] > pts_sec[i - 1]}
             delta(i) == pts_sec[i] - pts_sec[i - 1]
         IN  IF idx = {} THEN None
             ELSE LET ord == [k \in 1..Cardinality(idx) |->
                                CHOOSE i \in idx : Cardinality({j \in idx : j < i}) = k - 1]
                      dts == [k \in 1..Cardinality(idx) |-> delta(ord[k])]
                      med2 == Median2(dts)
                      \* abs(dt - med) / med <= tol_rel
                      within == {k \in 1..Len(dts) :
                                    1000 * Abs(2 * dts[k] - med2) <= TolRelPermille * med2}
                  IN  IF med2 <= 0 THEN None
                      \* sum(within) / len(dts) >= min_ratio
                      ELSE IF 100 * Cardinality(within) >= MinRatioPercent * Len(dts)
                          THEN PyStr(<<"C","F","R">>)
                          ELSE PyStr(<<"V","F","R">>)

---------------------------------------------------------------------------
\* Decoding and measuring.  The decoder is an external collaborator; `dec` is
\* what it does for the file:
\*   open            "ok", or "AVError" when av.open fails
\*   has_video       whether the container holds a video stream
\*   time_base       vstream.time_base as a float, or None
\*   stream_duration vstream.duration (int, in time_base units), or None
\*   container_duration  container.duration (int), or None
\*   frames          the frames container.decode yields: [pts, format, width, height]
\*   fails           whether container.decode raises after yielding them

\* av.time_base, the int constant of the decoder library
AvTimeBase == 1000 * 1000

\* a * b and a / b on fixed-point floats
FMul(a, b) == (a \div Scale) * b + ((a % Scale) * b) \div Scale
FDiv(a, b) == (2 * a * Scale + b) \div (2 * b)

Last(s) == s[Len(s)]

\* A variant that tests the two durations for truth, so that a duration of 0
\* counts as absent.
decode_video_info_truthy_durations(dec) ==
    IF dec.open # "ok" THEN
        [exc |-> NoExc, pix_fmt |-> None, res |-> None, fps |-> None,
         frm_mode |-> None, duration_sec |-> None]
    ELSE IF ~dec.has_video THEN
        [exc |-> NoExc, pix_fmt |-> None, res |-> None, fps |-> None,
         frm_mode |-> None, duration_sec |-> None]
    ELSE IF dec.fails THEN Raise("AVError")
    ELSE
        LET frames == dec.frames
            pix_fmt_name == IF Len(frames) > 0 THEN PyStr(frames[1].format) ELSE None
            width == IF Len(frames) > 0 THEN PyInt(frames[1].width) ELSE None
            height == IF Len(frames) > 0 THEN PyInt(frames[1].height) ELSE None
            stamped == SelectSeq(frames,
                           LAMBDA fr : ~IsNone(fr.pts) /\ ~IsNone(dec.time_base))
            pts_sec == [i \in 1..Len(stamped) |->
                           FMul(stamped[i].pts.v * Scale, dec.time_base.v)]
            span == Last(pts_sec) - pts_sec[1]
            fps_measured ==
                IF Len(pts_sec) >= 2 /\ span > 0
                THEN PyFloat(FDiv((Len(pts_sec) - 1) * Scale, span))
                ELSE None
            duration_sec ==
                IF Truthy(dec.stream_duration) /\ Truthy(dec.time_base)
                    THEN PyFloat(FMul(dec.stream_duration.v * Scale, dec.time_base.v))
                ELSE IF Truthy(dec.container_duration)
                    THEN PyFloat(FMul(dec.container_duration.v * Scale, AvTimeBase * Scale))
                ELSE IF Len(pts_sec) > 0
                    THEN IF Len(pts_sec) > 1 /\ Truthy(fps_measured)
                         THEN PyFloat(span + FDiv(Scale, fps_measured.v))
                         ELSE PyFloat(span)
                ELSE None
        IN  [exc |-> NoExc,
             pix_fmt |-> pix_fmt_name,
             res |-> IF Truthy(width) /\ Truthy(height)
                     THEN [t |-> "tuple", v |-> <<width, height>>] ELSE None,
             fps |-> fps_measured,
             frm_mode |-> detect_frame_rate_mode(pts_sec),
             duration_sec |-> duration_sec]

decode_video_info(dec) ==
    IF dec.open # "ok" THEN
        [exc |-> NoExc, pix_fmt |-> None, res |-> None, fps |-> None,
         frm_mode |-> None, duration_sec |-> None]
    ELSE IF ~dec.has_video THEN
        [exc |-> NoExc, pix_fmt |-> None, res |-> None, fps |-> None,
         frm_mode |-> None, duration_sec |-> None]
    ELSE IF dec.fails THEN Raise("AVError")
    ELSE
        LET frames == dec.frames
            pix_fmt_name == IF Len(frames) > 0 THEN PyStr(frames[1].format) ELSE None
            width == IF Len(frames) > 0 THEN PyInt(frames[1].width) ELSE None
            height == IF Len(frames) > 0 THEN PyInt(frames[1].height) ELSE None
            stamped == SelectSeq(frames,
                           LAMBDA fr : ~IsNone(fr.pts) /\ ~IsNone(dec.time_base))
            pts_sec == [i \in 1..Len(stamped) |->
                           FMul(stamped[i].pts.v * Scale, dec.time_base.v)]
            span == Last(pts_sec) - pts_sec[1]
            fps_measured ==
                IF Len(pts_sec) >= 2 /\ span > 0
                THEN PyFloat(FDiv((Len(pts_sec) - 1) * Scale, span))
                ELSE None
            duration_sec ==
                IF ~IsNone(dec.stream_duration) /\ ~IsNone(dec.time_base)
                    THEN PyFloat(FMul(dec.stream_duration.v * Scale, dec.time_base.v))
                ELSE IF ~IsNone(dec.container_duration)
                    THEN PyFloat(FMul(dec.container_duration.v * Scale, AvTimeBase * Scale))
                ELSE IF Len(pts_sec) > 0
                    THEN IF Len(pts_sec) > 1 /\ Truthy(fps_measured)
                         THEN PyFloat(span + FDiv(Scale, fps_measured.v))
                         ELSE PyFloat(span)
                ELSE None
        IN  [exc |-> NoExc,
             pix_fmt |-> pix_fmt_name,
             res |-> IF Truthy(width) /\ Truthy(height)
                     THEN [t |-> "tuple", v |-> <<width, height>>] ELSE None,
             fps |-> fps_measured,
             frm_mode |-> detect_frame_rate_mode(pts_sec),
             duration_sec |-> duration_sec]

---------------------------------------------------------------------------
\* Hashing

\* The digest names hashlib.new accepts (the always-present ones).
HashlibAlgorithms == {<<"m","d","5">>, <<"s","h","a","1">>, <<"s","h","a","2","2","4">>, <<"s","h","a","2","5","6">>, <<"s","h","a","3","8","4">>, <<"s","h","a","5","1","2">>}

\* The hex digest of f under the algorithm that was really used.  The digest
\* itself is opaque: the text names the algorithm and the length of the data.
compute_file_hash(f, algo) ==
    LET a == lower(algo)
        used == IF a \in HashlibAlgorithms THEN a ELSE <<"s","h","a","2","5","6">>
    IN  IF ~f.readable THEN None
        ELSE PyStr(used \o <<":">> \o NatText(Len(f.data)))

---------------------------------------------------------------------------
\* Media profile

K_aufloesung == <<"a","u","f","l","ö","s","u","n","g">>
K_videolaenge_s == <<"v","i","d","e","o","l","ä","n","g","e","_","s">>

\* Path(p).name
PathName(path) == Last(split(path, "/"))

ProfileKeys == {<<"f","i","l","e","n","a","m","e">>, <<"f","i","l","e","_","i","d">>, <<"q","u","e","l","l","e">>, <<"l","e","s","b","a","r">>, <<"n","o","n","_","z","e","r","o","_","b","y","t","e","s">>,
                <<"d","a","t","e","i","f","o","r","m","a","t">>, K_aufloesung, <<"b","i","l","d","r","a","t","e","_","f","p","s">>, <<"f","r","a","m","e","_","r","a","t","e","_","m","o","d","e">>,
                <<"f","a","r","b","r","a","u","m">>, <<"b","i","t","_","t","i","e","f","e">>, K_videolaenge_s}

\* The profile dict from its entries.
Profile(filename, file_id, quelle, lesbar, non_zero, dateiformat, x, y, fps, frm_mode, farbraum, bit_tiefe, duration) ==
    PyMap([k \in ProfileKeys |->
        CASE k = <<"f","i","l","e","n","a","m","e">> -> filename
          [] k = <<"f","i","l","e","_","i","d">> -> file_id
          [] k = <<"q","u","e","l","l","e">> -> quelle
          [] k = <<"l","e","s","b","a","r">> -> lesbar
          [] k = <<"n","o","n","_","z","e","r","o","_","b","y","t","e","s">> -> non_zero
          [] k = <<"d","a","t","e","i","f","o","r","m","a","t">> -> dateiformat
          [] k = K_aufloesung -> PyMap([c \in {<<"x">>, <<"y">>} |-> IF c = <<"x">> THEN x ELSE y])
          [] k = <<"b","i","l","d","r","a","t","e","_","f","p","s">> -> fps
          [] k = <<"f","r","a","m","e","_","r","a","t","e","_","m","o","d","e">> -> frm_mode
          [] k = <<"f","a","r","b","r","a","u","m">> -> farbraum
          [] k = <<"b","i","t","_","t","i","e","f","e">> -> bit_tiefe
          [] k = K_videolaenge_s -> duration])

\* compute_file_hash(...) if exists and size > 0 else None
ShouldHash(exists, size) == exists /\ size > 0

\* A variant that returns early only for a missing file.
EarlyReturn_missing_only(exists, size) == ~exists

\* if not exists or size == 0: return prof
EarlyReturn(exists, size) == ~exists \/ size = 0

\* Returns [exc, prof, calls]: the profile (or the exception that escapes) and
\* the collaborators that were invoked on the way.
build_media_profile(f, algo, dec) ==
    LET exists == f.exists
        size == IF exists THEN Len(f.data) ELSE 0
        hashed == ShouldHash(exists, size)
        file_id == PyMap([k \in {<<"a","l","g","o","r","i","t","h","m">>, <<"h","a","s","h">>} |->
                      IF k = <<"a","l","g","o","r","i","t","h","m">> THEN PyStr(lower(algo))
                      ELSE IF hashed THEN compute_file_hash(f, algo) ELSE None])
        filename == PyStr(PathName(f.path))
        quelle == PyStr(f.path)
        hcalls == IF hashed THEN {"hasher"} ELSE {}
        sn == sniff_container(f)
        d == decode_video_info(dec)
    IN  IF EarlyReturn(exists, size) THEN
            [exc |-> NoExc, calls |-> hcalls,
             prof |-> Profile(filename, file_id, quelle, PyBool(FALSE), PyBool(size > 0),
                              None, None, None, None, None, None, None, None)]
        ELSE IF Raised(sn) THEN [exc |-> sn.exc, calls |-> hcalls \cup {"sniffer"}]
        ELSE IF Raised(d) THEN [exc |-> d.exc, calls |-> hcalls \cup {"sniffer", "decoder"}]
        ELSE
            [exc |-> NoExc, calls |-> hcalls \cup {"sniffer", "decoder"},
             prof |-> Profile(
                filename, file_id, quelle,
                PyBool(Truthy(d.pix_fmt) \/ Truthy(d.res) \/ Truthy(d.fps)),
                PyBool(size > 0),
                PyStr(sn.v),
                IF Truthy(d.res) THEN d.res.v[1] ELSE None,
                IF Truthy(d.res) THEN d.res.v[2] ELSE None,
                IF Truthy(d.fps) THEN d.fps ELSE None,
                IF Truthy(d.frm_mode) THEN d.frm_mode ELSE None,
                IF Truthy(d.pix_fmt) THEN PyStr(classify_farbraum(d.pix_fmt.v)) ELSE None,
                IF Truthy(d.pix_fmt) THEN bitdepth_from_pixfmt(d.pix_fmt.v) ELSE None,
                IF ~IsNone(d.duration_sec) THEN d.duration_sec ELSE None)]

---------------------------------------------------------------------------
\* Validation

\* A variant that lists the range criteria before the allow-list criteria.
CRITERIA_ORDER_ranges_first == <<
    <<"b","i","t","_","t","i","e","f","e">>, <<"b","i","l","d","r","a","t","e","_","f","p","s">>, K_videolaenge_s, <<"a","u","f","l","ö","s","u","n","g",".","x">>, <<"a","u","f","l","ö","s","u","n","g",".","y">>,
    <<"d","a","t","e","i","f","o","r","m","a","t">>, <<"f","a","r","b","r","a","u","m">>, <<"f","r","a","m","e","_","r","a","t","e","_","m","o","d","e">> >>

CRITERIA_ORDER == <<
    <<"d","a","t","e","i","f","o","r","m","a","t">>,
    <<"f","a","r","b","r","a","u","m">>,
    <<"b","i","t","_","t","i","e","f","e">>,
    <<"b","i","l","d","r","a","t","e","_","f","p","s">>,
    K_videolaenge_s,
    <<"f","r","a","m","e","_","r","a","t","e","_","m","o","d","e">>,
    <<"a","u","f","l","ö","s","u","n","g",".","x">>,
    <<"a","u","f","l","ö","s","u","n","g",".","y">> >>

KeinePruefung == <<"k","e","i","n","e"," ","P","r","ü","f","u","n","g">>
WertFehlt == <<"W","e","r","t"," ","f","e","h","l","t">>

\* What _in_allowed and _in_range return: (ok, info, counted).
Check(ok, info, counted) == [exc |-> NoExc, ok |-> ok, info |-> info, counted |-> counted]

\* Returns None or a list of str.
_as_allowed_list(value) ==
    IF IsNone(value) THEN None
    ELSE IF IsStr(value) THEN
        LET pieces == SelectSeq(split(value.v, ","), LAMBDA s : Len(strip(s)) > 0)
            items == [i \in 1..Len(pieces) |-> lower(strip(pieces[i]))]
        IN  IF Len(items) > 0 THEN PyList(items) ELSE None
    ELSE IF IsList(value) THEN
        PyList([i \in 1..Len(value.v) |-> lower(strip(str(value.v[i])))])
    ELSE None

\* repr of a list of str
ListRepr(items) ==
    <<"[">> \o join(<<","," ">>, [i \in 1..Len(items) |-> <<"'">> \o items[i] \o <<"'">>]) \o <<"]">>

\* A variant that compares the value as it is, without lower-casing it.
_in_allowed_case_sensitive(val, allowed) ==
    IF IsNone(allowed) THEN Check(TRUE, KeinePruefung, FALSE)
    ELSE IF IsNone(val) THEN Check(FALSE, WertFehlt, TRUE)
    ELSE IF ~IsStr(val) THEN Raise("AttributeError")
    ELSE LET ok == \E i \in 1..Len(allowed.v) : allowed.v[i] = val.v
         IN  Check(ok,
                   IF ok THEN <<"'">> \o val.v \o <<"'"," ","e","r","l","a","u","b","t">>
                   ELSE <<"'">> \o val.v \o <<"'"," ","n","i","c","h","t"," ","i","n"," ">> \o ListRepr(allowed.v),
                   TRUE)

_in_allowed(val, allowed) ==
    IF IsNone(allowed) THEN Check(TRUE, KeinePruefung, FALSE)
    ELSE IF IsNone(val) THEN Check(FALSE, WertFehlt, TRUE)
    ELSE IF ~IsStr(val) THEN Raise("AttributeError")
    ELSE LET ok == \E i \in 1..Len(allowed.v) : allowed.v[i] = lower(val.v)
         IN  Check(ok,
                   IF ok THEN <<"'">> \o val.v \o <<"'"," ","e","r","l","a","u","b","t">>
                   ELSE <<"'">> \o val.v \o <<"'"," ","n","i","c","h","t"," ","i","n"," ">> \o ListRepr(allowed.v),
                   TRUE)

\* A bound after the blank-string rule: None when it is a str that strips to "".
EffectiveBound(b) == IF IsStr(b) /\ Len(strip(b.v)) = 0 THEN None ELSE b

\* A variant that tests the value before the entry.
_in_range_value_first(num, spec) ==
    IF IsNone(num) THEN Check(FALSE, WertFehlt, TRUE)
    ELSE IF IsNone(spec) THEN Check(TRUE, KeinePruefung, FALSE)
    ELSE IF ~IsDict(spec) THEN Raise("AttributeError")
    ELSE
        LET mn == EffectiveBound(Get(spec, <<"m","i","n">>, None))
            mx == EffectiveBound(Get(spec, <<"m","a","x">>, None))
            fmn == float(mn)
            fmx == float(mx)
            low == IsNone(mn) \/ AsFixed(num) >= fmn.v
            info == join(<<","," ">>, <<
                        IF ~IsNone(mn) THEN <<"m","i","n","=">> \o str(mn) ELSE <<"m","i","n","=","-",InfSign>>,
                        IF ~IsNone(mx) THEN <<"m","a","x","=">> \o str(mx) ELSE <<"m","a","x","=","+",InfSign>>,
                        <<"w","e","r","t","=">> \o str(num) >>)
        IN  IF ~IsNone(mn) /\ Raised(fmn) THEN Raise(fmn.exc)
            ELSE IF ~low THEN Check(FALSE, info, TRUE)
            ELSE IF ~IsNone(mx) /\ Raised(fmx) THEN Raise(fmx.exc)
            ELSE Check(IsNone(mx) \/ AsFixed(num) <= fmx.v, info, TRUE)

\* A variant whose bounds are exclusive.
_in_range_exclusive(num, spec) ==
    IF IsNone(spec) THEN Check(TRUE, KeinePruefung, FALSE)
    ELSE IF IsNone(num) THEN Check(FALSE, WertFehlt, TRUE)
    ELSE IF ~IsDict(spec) THEN Raise("AttributeError")
    ELSE
        LET mn == EffectiveBound(Get(spec, <<"m","i","n">>, None))
            mx == EffectiveBound(Get(spec, <<"m","a","x">>, None))
            fmn == float(mn)
            fmx == float(mx)
            low == IsNone(mn) \/ AsFixed(num) > fmn.v
            info == join(<<","," ">>, <<
                        IF ~IsNone(mn) THEN <<"m","i","n","=">> \o str(mn) ELSE <<"m","i","n","=","-",InfSign>>,
                        IF ~IsNone(mx) THEN <<"m","a","x","=">> \o str(mx) ELSE <<"m","a","x","=","+",InfSign>>,
                        <<"w","e","r","t","=">> \o str(num) >>)
        IN  IF ~IsNone(mn) /\ Raised(fmn) THEN Raise(fmn.exc)
            ELSE IF ~low THEN Check(FALSE, info, TRUE)
            ELSE IF ~IsNone(mx) /\ Raised(fmx) THEN Raise(fmx.exc)
            ELSE Check(IsNone(mx) \/ AsFixed(num) < fmx.v, info, TRUE)

_in_range(num, spec) ==
    IF IsNone(spec) THEN Check(TRUE, KeinePruefung, FALSE)
    ELSE IF IsNone(num) THEN Check(FALSE, WertFehlt, TRUE)
    ELSE IF ~IsDict(spec) THEN Raise("AttributeError")
    ELSE
        LET mn == EffectiveBound(Get(spec, <<"m","i","n">>, None))
            mx == EffectiveBound(Get(spec, <<"m","a","x">>, None))
            fmn == float(mn)
            fmx == float(mx)
            low == IsNone(mn) \/ AsFixed(num) >= fmn.v
            info == join(<<","," ">>, <<
                        IF ~IsNone(mn) THEN <<"m","i","n","=">> \o str(mn) ELSE <<"m","i","n","=","-",InfSign>>,
                        IF ~IsNone(mx) THEN <<"m","a","x","=">> \o str(mx) ELSE <<"m","a","x","=","+",InfSign>>,
                        <<"w","e","r","t","=">> \o str(num) >>)
        IN  IF ~IsNone(mn) /\ Raised(fmn) THEN Raise(fmn.exc)
            ELSE IF ~low THEN Check(FALSE, info, TRUE)
            ELSE IF ~IsNone(mx) /\ Raised(fmx) THEN Raise(fmx.exc)
            ELSE Check(IsNone(mx) \/ AsFixed(num) <= fmx.v, info, TRUE)

\* The IF ... isinstance(..., dict) ELSE None of the range entries.
DictOrNone(v) == IF IsDict(v) THEN v ELSE None

\* pf.get("auflösung", {}).get(axis) if isinstance(pf.get("auflösung"), dict) else None
AxisSpec(pf, axis) ==
    IF IsDict(Get(pf, K_aufloesung, None))
    THEN Get(Get(pf, K_aufloesung, EmptyMap), axis, None)
    ELSE None

\* The eight (ok, info, counted) results in the order validate_full computes them.
criterion_checks(prof, pf) ==
    LET aufl == Get(prof, K_aufloesung, EmptyMap)
    IN  << _in_allowed(Get(prof, <<"d","a","t","e","i","f","o","r","m","a","t">>, None),
                       _as_allowed_list(Get(pf, <<"d","a","t","e","i","f","o","r","m","a","t">>, None))),
           _in_allowed(Get(prof, <<"f","a","r","b","r","a","u","m">>, None),
                       _as_allowed_list(Get(pf, <<"f","a","r","b","r","a","u","m">>, None))),
           _in_range(Get(prof, <<"b","i","t","_","t","i","e","f","e">>, None),
                     DictOrNone(Get(pf, <<"b","i","t","_","t","i","e","f","e">>, None))),
           _in_range(Get(prof, <<"b","i","l","d","r","a","t","e","_","f","p","s">>, None),
                     DictOrNone(Get(pf, <<"b","i","l","d","r","a","t","e","_","f","p","s">>, None))),
           _in_range(Get(prof, K_videolaenge_s, None),
                     DictOrNone(Get(pf, K_videolaenge_s, None))),
           _in_allowed(Get(prof, <<"f","r","a","m","e","_","r","a","t","e","_","m","o","d","e">>, None),
                       _as_allowed_list(Get(pf, <<"f","r","a","m","e","_","r","a","t","e","_","m","o","d","e">>, None))),
           _in_range(Get(aufl, <<"x">>, None), AxisSpec(pf, <<"x">>)),
           _in_range(Get(aufl, <<"y">>, None), AxisSpec(pf, <<"y">>)) >>

\* A variant that assigns overall_ok instead of accumulating it.
RECURSIVE Aggregate_assigning(_, _, _)
Aggregate_assigning(checks, overall_ok, counted_any) ==
    IF Len(checks) = 0 THEN [overall_ok |-> overall_ok, counted_any |-> counted_any]
    ELSE Aggregate_assigning(Tail(checks),
                             IF checks[1].counted THEN checks[1].ok ELSE TRUE,
                             counted_any \/ checks[1].counted)

\* overall_ok &= (ok if counted else True); counted_any |= counted, for each check in turn
RECURSIVE Aggregate(_, _, _)
Aggregate(checks, overall_ok, counted_any) ==
    IF Len(checks) = 0 THEN [overall_ok |-> overall_ok, counted_any |-> counted_any]
    ELSE Aggregate(Tail(checks),
                   overall_ok /\ (IF checks[1].counted THEN checks[1].ok ELSE TRUE),
                   counted_any \/ checks[1].counted)

Status(overall_ok, counted_any) ==
    IF overall_ok \/ ~counted_any THEN <<"p","a","s","s","e","n","d">> ELSE <<"f","a","i","l","e","d">>

\* The keys of the details[...] = {...} assignments, in the order they execute.
DetailKeys == <<
    <<"d","a","t","e","i","f","o","r","m","a","t">>, <<"f","a","r","b","r","a","u","m">>, <<"b","i","t","_","t","i","e","f","e">>, <<"b","i","l","d","r","a","t","e","_","f","p","s">>, K_videolaenge_s,
    <<"f","r","a","m","e","_","r","a","t","e","_","m","o","d","e">>, <<"a","u","f","l","ö","s","u","n","g",".","x">>, <<"a","u","f","l","ö","s","u","n","g",".","y">> >>

\* A variant that stores the running overall_ok as a criterion's ok.
Details_cumulative(checks) ==
    [i \in 1..Len(DetailKeys) |->
        [key |-> DetailKeys[i], ok |-> \A j \in 1..i : checks[j].ok, info |-> checks[i].info]]

\* details (a dict, kept as its entries in insertion order) after the eight
\* details[key] = {"ok": ok, "info": info} assignments
Details(checks) ==
    [i \in 1..Len(DetailKeys) |->
        [key |-> DetailKeys[i], ok |-> checks[i].ok, info |-> checks[i].info]]

\* {k: details[k] for k in CRITERIA_ORDER}
Ordered(details) ==
    [i \in 1..Len(CRITERIA_ORDER) |->
        details[CHOOSE n \in 1..Len(details) : details[n].key = CRITERIA_ORDER[i]]]

\* profile_spec or {}
SpecOrEmpty(spec) == IF Truthy(spec) THEN spec ELSE EmptyMap

validate_full(prof, spec) ==
    LET pf == SpecOrEmpty(spec)
        checks == criterion_checks(prof, pf)
        raising == {i \in 1..Len(checks) : Raised(checks[i])}
        agg == Aggregate(checks, TRUE, FALSE)
        details == Ordered(Details(checks))
    IN  IF ~IsDict(pf) THEN Raise("AttributeError")
        ELSE IF raising # {}
            THEN Raise(checks[CHOOSE i \in raising : \A j \in raising : i <= j].exc)
        ELSE [exc |-> NoExc, status |-> Status(agg.overall_ok, agg.counted_any),
              details |-> details]

---------------------------------------------------------------------------
\* The command-line program and the GUI worker that runs it per file

ExitPass == 0
ExitFail == 2
ExitProfileError == 1
ExitUncaught == 1
ExitUsage == 2
CodeNotRun == 99

HashChoices == {<<"m","d","5">>, <<"s","h","a","1">>, <<"s","h","a","2","5","6">>, <<"s","h","a","5","1","2">>}

\* ap.parse_args() on argv = [input, profile, hash_algo, summary_only], an
\* option that is not given being None: the parsed arguments, or the exit
\* argparse makes for a missing required argument or a value outside choices.
parse_args(argv) ==
    IF IsNone(argv.input) \/ IsNone(argv.profile) THEN [exits |-> TRUE, status |-> ExitUsage]
    ELSE IF ~IsNone(argv.hash_algo) /\ argv.hash_algo.v \notin HashChoices
        THEN [exits |-> TRUE, status |-> ExitUsage]
    ELSE [exits |-> FALSE,
          input |-> argv.input.v,
          profile |-> argv.profile.v,
          hash_algo |-> IF IsNone(argv.hash_algo) THEN <<"s","h","a","2","5","6">> ELSE argv.hash_algo.v,
          summary_only |-> argv.summary_only]

\* Whether main() gets as far as build_media_profile: the arguments parsed
\* and the file at args.profile was found and loaded (pfile is the state of
\* that file).
MainBuilds(args, pfile) == ~args.exits /\ pfile = "json"

\* The exit code of main(), b being what build_media_profile returned or
\* raised and val what validate_full did (both Idle when not reached).  An
\* exception that nothing catches ends the process with ExitUncaught.
main(args, pfile, b, val) ==
    IF args.exits THEN args.status
    ELSE IF pfile = "missing" THEN ExitProfileError
    ELSE IF pfile = "unparseable" THEN ExitProfileError
    ELSE IF Raised(b) THEN ExitUncaught
    ELSE IF Raised(val) THEN ExitUncaught
    ELSE IF val.status = <<"p","a","s","s","e","n","d">> THEN ExitPass
    ELSE ExitFail

\* The cmd Worker.run_check builds for a file.
WorkerCmd(filepath, profile_path) ==
    [input |-> PyStr(filepath),
     summary_only |-> TRUE,
     profile |-> IF Truthy(profile_path) THEN profile_path ELSE None,
     hash_algo |-> None]

\* report_obj as main() writes it to <input name>.validationreport.json;
\* written_by tells the run that wrote it ("this" run of the worker or an
\* "earlier" one) and is not part of the file.
Report(written_by, prof, val) ==
    [t |-> "report", written_by |-> written_by, media_profile |-> prof,
     validation |-> [status |-> val.status, details |-> val.details]]

IsReport(x) == x.t = "report"

\* Whether main() gets as far as writing the report: validate_full returned.
MainWritesReport(val) == val # Idle /\ ~Raised(val)

\* Worker._load_validation_report(filepath): the JSON of the report file that
\* is beside the input file, None if there is none.
_load_validation_report(content) == content

\* A variant that counts every criterion, checked or not.
_compute_fail_ratio_counting_all(report) ==
    IF ~IsReport(report) /\ ~Truthy(report) THEN [exc |-> NoExc, fail_ratio |-> <<"-">>, total |-> 0]
    ELSE IF ~IsReport(report) THEN Raise("AttributeError")
    ELSE
        LET evaluated == report.validation.details
            fails == Len(SelectSeq(evaluated, LAMBDA v : ~v.ok))
            total == Len(evaluated)
        IN  IF total = 0 THEN [exc |-> NoExc, fail_ratio |-> <<"-">>, total |-> 0]
            ELSE [exc |-> NoExc, fail_ratio |-> NatText(fails) \o <<"/">> \o NatText(total),
                  total |-> total]

\* Worker._compute_fail_ratio(report): ("fails/total", total) over the
\* criteria whose info is not 'keine Prüfung', ("-", 0) without a report or
\* without such a criterion.  A JSON value that is not an object has no get().
_compute_fail_ratio(report) ==
    IF ~IsReport(report) /\ ~Truthy(report) THEN [exc |-> NoExc, fail_ratio |-> <<"-">>, total |-> 0]
    ELSE IF ~IsReport(report) THEN Raise("AttributeError")
    ELSE
        LET evaluated == SelectSeq(report.validation.details, LAMBDA v : v.info # KeinePruefung)
            fails == Len(SelectSeq(evaluated, LAMBDA v : ~v.ok))
            total == Len(evaluated)
        IN  IF total = 0 THEN [exc |-> NoExc, fail_ratio |-> <<"-">>, total |-> 0]
            ELSE [exc |-> NoExc, fail_ratio |-> NatText(fails) \o <<"/">> \o NatText(total),
                  total |-> total]

\* Worker.run_check: (code, payload) with the return code of the process, the
\* report found beside the file and its fail ratio; (99, ...) without a
\* report when running the process or reading the report raised.  Of the
\* payload the model keeps report, fail_ratio and total.
run_check(launched, returncode, content) ==
    LET report == _load_validation_report(content)
        ratio == _compute_fail_ratio(report)
        failed == [code |-> CodeNotRun,
                   payload |-> [report |-> None, fail_ratio |-> <<"-">>, total |-> 0]]
    IN  IF ~launched THEN failed
        ELSE IF Raised(ratio) THEN failed
        ELSE [code |-> returncode,
              payload |-> [report |-> report, fail_ratio |-> ratio.fail_ratio, total |-> ratio.total]]

\* MainWindow.update_result: the status text shown for a code.
StatusLabel(c) ==
    IF c = 0 THEN <<"P","A","S","S">>
    ELSE IF c = 2 THEN <<"F","A","I","L">>
    ELSE IF c = 99 THEN <<"E","R","R","O","R">>
    ELSE <<"E","x","i","t"," ">> \o IntText(c)

---------------------------------------------------------------------------
\* ---- the GUI reading the info text of a criterion

\* part.split("=", 1) of a part that holds "="
SplitAtFirstEq(part) ==
    LET c == CHOOSE i \in 1..Len(part) : part[i] = "=" /\ \A j \in 1..(i - 1) : part[j] # "="
    IN  [key |-> SubSeq(part, 1, c - 1), val |-> SubSeq(part, c + 1, Len(part))]

\* dict(part.split("=", 1) for part in info.split(",") if "=" in part), as the
\* sequence of its (key, val) pairs: a later pair replaces an earlier one of
\* the same key.
InfoParts(info) ==
    LET kept == SelectSeq(split(info, ","), LAMBDA part : contains(part, <<"=">>))
    IN  [i \in 1..Len(kept) |-> SplitAtFirstEq(kept[i])]

\* `key in parts`
HasPart(parts, key) == \E i \in 1..Len(parts) : parts[i].key = key

\* parts[key]
PartOf(parts, key) ==
    parts[CHOOSE i \in 1..Len(parts) :
            parts[i].key = key /\ \A j \in (i + 1)..Len(parts) : parts[j].key # key].val

\* Returns (min_val, max_val), each a float or None.
_parse_range_info(info) ==
    LET parts == InfoParts(info)
        fmin == IF HasPart(parts, <<"m","i","n">>) THEN float(PyStr(strip(PartOf(parts, <<"m","i","n">>)))) ELSE None
        fmax == IF HasPart(parts, <<"m","a","x">>) THEN float(PyStr(strip(PartOf(parts, <<"m","a","x">>)))) ELSE None
    IN  IF fmin # None /\ Raised(fmin) THEN [min |-> None, max |-> None]
        ELSE IF fmax # None /\ Raised(fmax) THEN [min |-> None, max |-> None]
        ELSE [min |-> IF fmin = None THEN None ELSE PyFloat(fmin.v),
              max |-> IF fmax = None THEN None ELSE PyFloat(fmax.v)]

\* The unit of a criterion in CRITERIA_META, << >> if it has none.
UnitOf(key) ==
    CASE key = <<"b","i","t","_","t","i","e","f","e">> -> <<"b","i","t">>
      [] key = <<"b","i","l","d","r","a","t","e","_","f","p","s">> -> <<"f","p","s">>
      [] key = K_videolaenge_s -> <<"S","e","k","u","n","d","e","n">>
      [] key = K_aufloesung \o <<".","x">> -> <<"P","i","x","e","l">>
      [] key = K_aufloesung \o <<".","y">> -> <<"P","i","x","e","l">>
      [] OTHER -> << >>

\* f"{n:,}".replace(",", ".") of a non-negative int
RECURSIVE GroupedText(_)
GroupedText(n) ==
    IF n < 1000 THEN NatText(n)
    ELSE GroupedText(n \div 1000) \o <<".">>
            \o <<Digits[((n \div 100) % 10) + 1], Digits[((n \div 10) % 10) + 1], Digits[(n % 10) + 1]>>

\* _format_number(value) of a float given in 1/Scale: a whole number with
\* grouped thousands, any other with up to three decimals.
_format_number(u) ==
    IF u % Scale = 0
        THEN (IF u < 0 THEN <<"-">> ELSE << >>) \o GroupedText((IF u < 0 THEN 0 - u ELSE u) \div Scale)
    ELSE FloatText(u)

\* _format_value(key, value) of a float or None
_format_value(key, value) ==
    IF IsNone(value) THEN <<"-">>
    ELSE IF UnitOf(key) # << >> THEN _format_number(value.v) \o <<" ">> \o UnitOf(key)
    ELSE _format_number(value.v)

\* str.strip("'\"")
StripQuotes(s) ==
    LET keep == {i \in 1..Len(s) : s[i] \notin {"'", "\""}}
    IN  IF keep = {} THEN << >>
        ELSE SubSeq(s, CHOOSE i \in keep : \A j \in keep : i <= j,
                       CHOOSE i \in keep : \A j \in keep : j <= i)

\* The position where needle first starts in s, 0 if nowhere.
Find(s, needle) ==
    LET at == {i \in 1..(Len(s) - Len(needle) + 1) : SubSeq(s, i, i + Len(needle) - 1) = needle}
    IN  IF at = {} THEN 0 ELSE CHOOSE i \in at : \A j \in at : i <= j

\* _parse_allowed_info(info)[1], the allowed items, for the info texts of
\* _in_allowed whose items hold neither a comma nor a quote; None for a text
\* that is not of an allowed-list check.
AllowedOfInfo(text) ==
    LET info == strip(text)
        nicht == Find(info, <<" ","n","i","c","h","t"," ","i","n"," ">>)
        erlaubt == <<" ","e","r","l","a","u","b","t">>
    IN  IF nicht # 0 THEN
            LET part == strip(SubSeq(info, nicht + Len(<<" ","n","i","c","h","t"," ","i","n"," ">>), Len(info)))
                inner == SubSeq(part, 2, Len(part) - 1)
                items == IF Len(strip(inner)) = 0 THEN << >> ELSE split(inner, ",")
            IN  PyList([i \in 1..Len(items) |-> PyStr(strip(StripQuotes(strip(items[i]))))])
        ELSE IF Len(info) >= Len(erlaubt)
                /\ SubSeq(info, Len(info) - Len(erlaubt) + 1, Len(info)) = erlaubt THEN
            PyList(<<PyStr(StripQuotes(strip(SubSeq(info, 1, Len(info) - Len(erlaubt)))))>>)
        ELSE None

\* _expected_from_info(key, info): the text of the column of expected values.
_expected_from_info(key, text) ==
    IF Len(text) = 0 THEN <<"-">>
    ELSE
        LET info == strip(text)
            parsed == _parse_range_info(info)
            allowed == AllowedOfInfo(info)
        IN  IF startswith(info, <<"m","i","n","=">>) \/ contains(info, <<" ","m","i","n","=">>) \/ contains(info, <<"m","a","x","=">>) THEN
                IF IsNone(parsed.min) /\ IsNone(parsed.max) THEN info
                ELSE IF ~IsNone(parsed.min) /\ ~IsNone(parsed.max) THEN
                    IF parsed.min.v = parsed.max.v THEN _format_value(key, parsed.min)
                    ELSE _format_value(key, PyFloat((parsed.min.v + parsed.max.v) \div 2))
                ELSE IF ~IsNone(parsed.min) THEN _format_value(key, parsed.min)
                ELSE _format_value(key, parsed.max)
            ELSE IF Truthy(allowed) THEN
                join(<<","," ">>, [i \in 1..Len(allowed.v) |-> allowed.v[i].v])
            ELSE info

---------------------------------------------------------------------------

\* Inputs

MaxFrames == 3
MaxPts == 2
MaxFtypOff == 63

\* A dict from <<key, value>> pairs; a pair whose value is Absent gives no key.
Dict(pairs) ==
    LET present == {i \in 1..Len(pairs) : pairs[i][2] # Absent}
    IN  PyMap([k \in {pairs[i][1] : i \in present} |->
                  pairs[CHOOSE i \in present : pairs[i][1] = k][2]])

MinMax(mn, mx) == Dict(<< <<<<"m","i","n">>, mn>>, <<<<"m","a","x">>, mx>> >>)

\* ---- files

File(exists, readable, data) ==
    [exists |-> exists, readable |-> readable, path |-> <<"i","n","/","c","l","i","p",".","m","p","4">>, data |-> data]

MissingFile == File(FALSE, FALSE, << >>)
EmptyFile == File(TRUE, TRUE, << >>)
TinyFile == File(TRUE, TRUE, <<0, 0, 1>>)
Mp4File == File(TRUE, TRUE, <<0, 0, 0, 24>> \o B(<<"f","t","y","p">>) \o <<105, 115, 111, 109>>)
UnreadableFile == File(TRUE, FALSE, <<0, 0, 0, 24>> \o B(<<"f","t","y","p">>))
UnreadableTinyFile == File(TRUE, FALSE, <<SyncByte, 0, 0>>)

BuildFiles == {MissingFile, EmptyFile, TinyFile, Mp4File, UnreadableFile}

HashAlgos == {<<"s","h","a","2","5","6">>, <<"M","D","5">>, <<"c","r","c","3","2">>}

\* ---- decoder behaviours

TimeBase25 == PyFloat(Scale \div 25)

PixFmts == {<<"y","u","v","4","2","0","p">>, <<"r","g","b","2","4">>, <<"g","r","a","y","1","0","l","e">>, <<"m","o","n","o","w">>}

RECURSIVE SeqsUpTo(_, _)
SeqsUpTo(S, n) ==
    IF n = 0 THEN {<< >>}
    ELSE LET shorter == SeqsUpTo(S, n - 1)
         IN  shorter \cup {Append(s, x) : s \in {t \in shorter : Len(t) = n - 1}, x \in S}

PtsValues == {None} \cup {PyInt(n) : n \in 0..MaxPts}

Decoder(open, has_video, tb, sdur, cdur, fmt, pts, fails) ==
    [open |-> open, has_video |-> has_video, time_base |-> tb,
     stream_duration |-> sdur, container_duration |-> cdur,
     frames |-> [i \in 1..Len(pts) |->
                    [pts |-> pts[i], format |-> fmt, width |-> 640, height |-> 480]],
     fails |-> fails]

OpenFails == Decoder("AVError", FALSE, None, None, None, << >>, << >>, FALSE)
NoVideo == Decoder("ok", FALSE, None, None, None, << >>, << >>, FALSE)

DecodeFails ==
    {Decoder("ok", TRUE, TimeBase25, sdur, None, <<"y","u","v","4","2","0","p">>, pts, TRUE) :
        sdur \in {None, PyInt(50)}, pts \in {<< >>, <<PyInt(0), PyInt(1)>>}}

DecodeRuns ==
    {Decoder("ok", TRUE, tb, sdur, cdur, fmt, pts, FALSE) :
        tb \in {None, TimeBase25}, sdur \in {None, PyInt(50)}, cdur \in {None, PyInt(1)},
        fmt \in PixFmts, pts \in SeqsUpTo(PtsValues, MaxFrames)}

Decoders == {OpenFails, NoVideo} \cup DecodeFails \cup DecodeRuns

\* The decoder is only asked about a file the builder gets as far as decoding.
DecodersFor(f) ==
    IF f.exists /\ Len(f.data) > 0 /\ f.readable THEN Decoders ELSE {OpenFails}

\* ---- profiles handed to validate_full: profiles the builder returns

Pts(ns) == [i \in 1..Len(ns) |-> PyInt(ns[i])]

ValidateInputs == {
    <<EmptyFile, OpenFails>>,
    <<Mp4File, OpenFails>>,
    <<Mp4File, Decoder("ok", TRUE, TimeBase25, PyInt(50), None, <<"y","u","v","4","2","0","p">>, Pts(<<0, 1, 2>>), FALSE)>>,
    <<Mp4File, Decoder("ok", TRUE, TimeBase25, None, None, <<"r","g","b","2","4">>, Pts(<<0, 1, 3>>), FALSE)>>,
    <<TinyFile, Decoder("ok", TRUE, None, None, None, <<"g","r","a","y","1","0","l","e">>, Pts(<<0>>), FALSE)>>,
    <<Mp4File, Decoder("ok", TRUE, TimeBase25, PyInt(50), None, <<"y","u","v","4","2","0","p">>, << >>, FALSE)>> }

\* prof with the value of key replaced
WithValue(prof, key, val) == PyMap([prof.v EXCEPT ![key] = val])

\* The profile of a clip of 23.9 frames per second (a rate that takes more than
\* MaxFrames frames to measure at the resolution of Scale).
Profile239 ==
    WithValue(build_media_profile(Mp4File, <<"s","h","a","2","5","6">>,
                  Decoder("ok", TRUE, TimeBase25, PyInt(50), None, <<"y","u","v","4","2","0","p">>, Pts(<<0, 1, 2>>), FALSE)).prof,
              <<"b","i","l","d","r","a","t","e","_","f","p","s">>, PyFloat(239 * (Scale \div 10)))

ValidateProfiles ==
    {build_media_profile(i[1], <<"s","h","a","2","5","6">>, i[2]).prof : i \in ValidateInputs}
    \cup {Profile239}

\* ---- target values handed to validate_full

\* Target values that are no JSON object (json.loads accepts any JSON text).
SpecNonMaps == {None, PyList(<< >>), PyList(<<PyInt(1)>>), PyStr(<<"m","p","4">>), PyInt(5),
                PyInt(0), PyBool(TRUE)}

\* What a JSON object may hold per field: nothing, a well-formed entry, a blank
\* or malformed one.  Bounds are scalars (numbers, numerals, blank or other text).
DateiformatEntries == {Absent, PyStr(<<"m","p","4","/","m","o","v",","," ","A","V","I">>), PyInt(5)}
FarbraumEntries == {Absent, PyList(<<PyStr(<<"y","u","v">>), PyStr(<<" ","R","G","B"," ">>)>>), PyStr(<<" ",","," ">>)}
FrameRateModeEntries == {Absent, PyStr(<<"c","f","r">>), MinMax(PyInt(1), Absent)}
BitTiefeEntries == {Absent, MinMax(PyInt(8), PyInt(10)), PyInt(8)}
BildrateEntries == {Absent, MinMax(PyInt(24), PyInt(30)), MinMax(PyStr(<<" ">>), PyStr(<<"a","b","c">>))}
VideolaengeEntries == {Absent, MinMax(PyStr(<<"1",".","5">>), None), PyList(<<PyInt(1), PyInt(60)>>)}
AufloesungEntries == {
    Absent,
    PyInt(5),
    Dict(<< <<<<"x">>, MinMax(PyInt(640), PyInt(1920))>>, <<<<"y">>, MinMax(PyStr(<< >>), PyFloat(400 * Scale))>> >>),
    Dict(<< <<<<"x">>, PyInt(640)>>, <<<<"y">>, PyStr(<<"4","8","0">>)>> >>),
    Dict(<< <<<<"x">>, None>>, <<<<"y">>, MinMax(PyList(<< >>), Absent)>> >>) }

SpecMaps ==
    {Dict(<< <<<<"d","a","t","e","i","f","o","r","m","a","t">>, a>>, <<<<"f","a","r","b","r","a","u","m">>, b>>, <<<<"f","r","a","m","e","_","r","a","t","e","_","m","o","d","e">>, c>>,
             <<<<"b","i","t","_","t","i","e","f","e">>, d>>, <<<<"b","i","l","d","r","a","t","e","_","f","p","s">>, e>>, <<K_videolaenge_s, f>>,
             <<K_aufloesung, g>> >>) :
        a \in DateiformatEntries, b \in FarbraumEntries, c \in FrameRateModeEntries,
        d \in BitTiefeEntries, e \in BildrateEntries, f \in VideolaengeEntries,
        g \in AufloesungEntries}

\* JSON objects with keys validate_full never reads.
SpecOddMaps == {
    Dict(<< <<<<"c","o","d","e","c">>, PyStr(<<"h","2","6","4">>)>> >>),
    Dict(<< <<<<"a","u","f","l","ö","s","u","n","g",".","x">>, MinMax(PyInt(1), PyInt(2))>>,
            <<<<"d","a","t","e","i","f","o","r","m","a","t">>, PyStr(<<"a","v","i">>)>> >>) }

SpecSet == SpecNonMaps \cup SpecMaps \cup SpecOddMaps

\* ---- files handed to sniff_container

Signatures == {<< >>,
               B(<<"R","I","F","F">>) \o <<1, 2, 3, 4>> \o B(<<"A","V","I"," ">>),
               B(<<"R","I","F","F">>) \o <<1, 2, 3, 4>> \o B(<<"W","A","V","E">>),
               <<26, 69, 223, 163>>,
               B(<<"O","g","g","S">>),
               <<SyncByte>>}

\* len bytes: sig at the start, `ftyp` at offset ftyp_at (when >= 0), fill elsewhere.
SniffData(len, fill, sig, ftyp_at) ==
    [i \in 1..len |->
        IF ftyp_at >= 0 /\ i - 1 >= ftyp_at /\ i - 1 < ftyp_at + 4
            THEN B(<<"f","t","y","p">>)[i - ftyp_at]
        ELSE IF i <= Len(sig) THEN sig[i]
        ELSE fill]

SniffLengths == {0, 1, 2, 3, 4, 12, FtypWindow, FtypWindow + 1, FtypWindow + 4, TsPacket * TsPackets}

\* len bytes of a transport stream: n sync bytes one packet apart from offset
\* off on, sig at the start, zero elsewhere.
TsData(len, off, n, sig) ==
    [i \in 1..len |->
        IF i <= Len(sig) THEN sig[i]
        ELSE IF i - 1 >= off /\ (i - 1 - off) % TsPacket = 0 /\ (i - 1 - off) \div TsPacket < n
            THEN SyncByte
        ELSE 0]

TsFiles ==
    {File(TRUE, TRUE, TsData(len, off, n, sig)) :
        len \in {TsPacket * TsPackets - 1, TsPacket * TsPackets, TsPacket * TsPackets + 1,
                 TsPacket * (TsPackets + 1)},
        off \in {0, 1, 5, TsPacket - 1, TsPacket},
        n \in {TsPackets - 1, TsPackets},
        sig \in {<< >>, <<26, 69, 223, 163>>, B(<<"O","g","g","S">>), B(<<"R","I","F","F">>),
                 <<0, 0, 0, 24>> \o B(<<"f","t","y","p">>)}}
    \cup {File(TRUE, TRUE, TsData(HeadLen + TsPacket * TsPackets, off, TsPackets, << >>)) :
            off \in {HeadLen - TsPacket * (TsPackets - 1) - 1,
                     HeadLen - TsPacket * (TsPackets - 1)}}

SniffFiles ==
    {File(TRUE, TRUE, SniffData(len, fill, sig, at)) :
        len \in SniffLengths, fill \in {0, SyncByte}, sig \in Signatures,
        at \in (0 - 1)..MaxFtypOff}
    \cup {MissingFile, UnreadableFile, UnreadableTinyFile}
    \cup TsFiles

---------------------------------------------------------------------------
\* Runs.  Each specification applies one operation of the engine to inputs
\* drawn from the sets above.

InitBuild ==
    /\ pc = "start"
    /\ file \in BuildFiles
    /\ hash_algo \in HashAlgos
    /\ decoder = Idle
    /\ built = Idle
    /\ media_profile = Idle
    /\ profile_spec = Idle
    /\ validation = Idle
    /\ sniffed = Idle
    /\ arg = Idle
    /\ ret = Idle
    /\ active_profile = Idle
    /\ profile_file = Idle
    /\ code = Idle
    /\ status_label = Idle
    /\ report_file = Idle
    /\ payload = Idle
    /\ NoWindow

\* build_media_profile(input_path, hash_algo), whatever the decoder does
Build ==
    /\ pc = "start"
    /\ \E dec \in DecodersFor(file) :
          /\ decoder' = dec
          /\ built' = build_media_profile(file, hash_algo, dec)
    /\ pc' = "built"
    /\ UNCHANGED <<file, hash_algo, media_profile, profile_spec, validation, sniffed, arg, ret,
                 active_profile, profile_file, code, status_label, report_file, payload, window>>

SpecBuild == InitBuild /\ [][Build]_vars

InitValidate ==
    /\ pc = "start"
    /\ file = Idle
    /\ hash_algo = Idle
    /\ decoder = Idle
    /\ built = Idle
    /\ media_profile \in ValidateProfiles
    /\ profile_spec \in SpecSet
    /\ validation = Idle
    /\ sniffed = Idle
    /\ arg = Idle
    /\ ret = Idle
    /\ active_profile = Idle
    /\ profile_file = Idle
    /\ code = Idle
    /\ status_label = Idle
    /\ report_file = Idle
    /\ payload = Idle
    /\ NoWindow

\* validate_full(media_profile, profile_spec)
Validate ==
    /\ pc = "start"
    /\ validation' = validate_full(media_profile, profile_spec)
    /\ pc' = "validated"
    /\ UNCHANGED <<file, hash_algo, decoder, built, media_profile, profile_spec, sniffed, arg, ret,
                 active_profile, profile_file, code, status_label, report_file, payload, window>>

SpecValidate == InitValidate /\ [][Validate]_vars

InitSniff ==
    /\ pc = "start"
    /\ file \in SniffFiles
    /\ hash_algo = Idle
    /\ decoder = Idle
    /\ built = Idle
    /\ media_profile = Idle
    /\ profile_spec = Idle
    /\ validation = Idle
    /\ sniffed = Idle
    /\ arg = Idle
    /\ ret = Idle
    /\ active_profile = Idle
    /\ profile_file = Idle
    /\ code = Idle
    /\ status_label = Idle
    /\ report_file = Idle
    /\ payload = Idle
    /\ NoWindow

\* sniff_container(path)
Sniff ==
    /\ pc = "start"
    /\ sniffed' = sniff_container(file)
    /\ pc' = "sniffed"
    /\ UNCHANGED <<file, hash_algo, decoder, built, media_profile, profile_spec, validation, arg, ret,
                 active_profile, profile_file, code, status_label, report_file, payload, window>>

SpecSniff == InitSniff /\ [][Sniff]_vars

---------------------------------------------------------------------------
\* ---- detect_frame_rate_mode called on its own

MaxTsLen == 4
LongLen == 21

\* timestamps in 1/Scale seconds
TsValues == {0, 40, 80, 120, 125}

\* n timestamps at a constant step
Ramp(n, step) == [i \in 1..n |-> (i - 1) * step]

\* ts with every timestamp from position at on delayed by extra
Delayed(ts, at, extra) == [i \in 1..Len(ts) |-> IF i >= at THEN ts[i] + extra ELSE ts[i]]

DetectInputs ==
    SeqsUpTo(TsValues, MaxTsLen)
    \cup {<<0, 40, 80, 120, 160>>, <<0, 40, 90, 200, 210>>,
          <<0, 1000, 2001, 3001>>, <<120, 80, 40, 40, 0>>,
          Ramp(LongLen, 40),
          Delayed(Ramp(LongLen, 40), 11, 160),
          Delayed(Delayed(Ramp(LongLen, 40), 11, 160), 15, 160)}

InitDetect ==
    /\ pc = "start"
    /\ file = Idle
    /\ hash_algo = Idle
    /\ decoder = Idle
    /\ built = Idle
    /\ media_profile = Idle
    /\ profile_spec = Idle
    /\ validation = Idle
    /\ sniffed = Idle
    /\ arg \in DetectInputs
    /\ ret = Idle
    /\ active_profile = Idle
    /\ profile_file = Idle
    /\ code = Idle
    /\ status_label = Idle
    /\ report_file = Idle
    /\ payload = Idle
    /\ NoWindow

\* detect_frame_rate_mode(pts_sec)
Detect ==
    /\ pc = "start"
    /\ ret' = detect_frame_rate_mode(arg)
    /\ pc' = "detected"
    /\ UNCHANGED <<file, hash_algo, decoder, built, media_profile, profile_spec, validation, sniffed, arg,
                 active_profile, profile_file, code, status_label, report_file, payload, window>>

SpecDetect == InitDetect /\ [][Detect]_vars

---------------------------------------------------------------------------

\* ---- the GUI checking one file

\* What the target-values file may hold when it parses.
GuiSpecs ==
    SpecNonMaps \cup SpecOddMaps
    \cup {Dict(<< <<<<"d","a","t","e","i","f","o","r","m","a","t">>, a>>, <<<<"b","i","t","_","t","i","e","f","e">>, d>> >>) :
            a \in DateiformatEntries, d \in BitTiefeEntries}

\* The files checked, each with what the decoder does for it.
GuiRuns ==
    ValidateInputs
    \cup {<<Mp4File, d>> : d \in DecodeFails}
    \cup {<<MissingFile, OpenFails>>, <<UnreadableFile, OpenFails>>}

\* The validation of an earlier run against target values that had nothing but
\* a dateiformat entry, or nothing at all when it passed.
ValidationLeft(passed) ==
    [status |-> IF passed THEN <<"p","a","s","s","e","n","d">> ELSE <<"f","a","i","l","e","d">>,
     details |-> [i \in 1..Len(CRITERIA_ORDER) |->
                    IF i = 1 /\ ~passed
                    THEN [key |-> CRITERIA_ORDER[i], ok |-> FALSE,
                          info |-> <<"'","m","p","4","/","m","o","v","'"," ","n","i","c","h","t"," ","i","n"," ","[","'","a","v","i","'","]">>]
                    ELSE [key |-> CRITERIA_ORDER[i], ok |-> TRUE, info |-> KeinePruefung]]]

\* What an earlier run may have left as the report beside the input file:
\* nothing, a report with either status, or JSON that is not an object.
ReportsLeft ==
    {None, PyList(<<PyInt(1)>>),
     Report("earlier", Profile239, ValidationLeft(TRUE)),
     Report("earlier", Profile239, ValidationLeft(FALSE))}

InitGui ==
    /\ pc = "start"
    /\ \E r \in GuiRuns : file = r[1] /\ decoder = r[2]
    /\ hash_algo = Idle
    /\ built = Idle
    /\ media_profile = Idle
    /\ active_profile \in {None, PyStr(<<"z","i","e","l","w","e","r","t","e",".","j","s","o","n">>)}
    /\ profile_file \in {"missing", "unparseable", "json"}
    /\ profile_spec \in IF profile_file = "json" THEN GuiSpecs ELSE {Idle}
    /\ validation = Idle
    /\ sniffed = Idle
    /\ arg = Idle
    /\ ret = Idle
    /\ code = Idle
    /\ status_label = Idle
    /\ report_file \in [content : ReportsLeft, writable : BOOLEAN]
    /\ payload = Idle
    /\ NoWindow

\* Worker.run_check(filepath), the process it starts included: main() parses
\* the cmd, builds the profile, validates it and exits.
RunCheck ==
    /\ pc = "start"
    /\ \E launched \in BOOLEAN :
          LET args == parse_args(WorkerCmd(file.path, active_profile))
          IN  /\ built' = IF launched /\ MainBuilds(args, profile_file)
                              THEN build_media_profile(file, args.hash_algo, decoder)
                          ELSE Idle
              /\ media_profile' = IF built' # Idle /\ ~Raised(built') THEN built'.prof ELSE Idle
              /\ validation' = IF media_profile' # Idle
                                   THEN validate_full(media_profile', profile_spec)
                               ELSE Idle
              /\ report_file' = IF launched /\ MainWritesReport(validation') /\ report_file.writable
                                       THEN [content |-> Report("this", media_profile', validation'),
                                             writable |-> TRUE]
                                   ELSE report_file
              /\ \E out \in {run_check(launched, main(args, profile_file, built', validation'),
                                       report_file'.content)} :
                    code' = out.code /\ payload' = out.payload
    /\ pc' = "checked"
    /\ UNCHANGED <<file, hash_algo, decoder, profile_spec, sniffed, arg, ret,
                 active_profile, profile_file, status_label, window>>

\* MainWindow.update_result(filepath, code, payload)
UpdateResult ==
    /\ pc = "checked"
    /\ status_label' = StatusLabel(code)
    /\ pc' = "shown"
    /\ UNCHANGED <<file, hash_algo, decoder, built, media_profile, profile_spec, validation, sniffed,
                 arg, ret, active_profile, profile_file, code, report_file, payload, window>>

NextGui == RunCheck \/ UpdateResult

SpecGui == InitGui /\ [][NextGui]_vars

---------------------------------------------------------------------------

\* ---- bitdepth_from_pixfmt called on its own

\* Pixel-format names: a family name followed by a number and an endianness
\* mark, in lower or mixed case, and the empty name.
PixFamilies == {<<"y","u","v","4","2","0","p">>, <<"y","u","v","4","4","4","p">>, <<"Y","U","V","4","2","2","P">>, <<"r","g","b">>, <<"b","g","r">>, <<"R","G","B">>, <<"r","g","b","a">>, <<"b","g","r","a">>,
                <<"a","r","g","b">>, <<"a","b","g","r">>, <<"g","r","a","y">>, <<"g","b","r","p">>, <<"y","a">>, <<"n","v">>, <<"p","0">>, <<"P","0">>, <<"m","o","n","o">>, <<"x","2","r","g","b">>}
PixSuffixes == {<< >>, <<"8">>, <<"1","0">>, <<"1","2">>, <<"1","6">>, <<"2","4">>, <<"4","8">>, <<"6","4">>, <<"w">>,
                <<"1","0","l","e">>, <<"1","6","b","e">>, <<"6","4","l","e">>, <<"4","8","L","E">>, <<"5","6","5","l","e">>}

\* Planar YUV names of more than 8 bits per channel: yuv4XXpNN with an
\* endianness mark.
PlanarYuvNames ==
    {<<"y","u","v","4">> \o xx \o <<"p">> \o nn \o e :
        xx \in {<<"2","0">>, <<"2","2">>, <<"4","4">>}, nn \in {<<"1","0">>, <<"1","2">>, <<"1","4">>, <<"1","6">>},
        e \in {<<"l","e">>, <<"b","e">>}}

PixNames == {f \o x : f \in PixFamilies, x \in PixSuffixes} \cup PlanarYuvNames \cup {<< >>}

InitBitDepth ==
    /\ pc = "start"
    /\ file = Idle
    /\ hash_algo = Idle
    /\ decoder = Idle
    /\ built = Idle
    /\ media_profile = Idle
    /\ profile_spec = Idle
    /\ validation = Idle
    /\ sniffed = Idle
    /\ arg \in PixNames
    /\ ret = Idle
    /\ active_profile = Idle
    /\ profile_file = Idle
    /\ code = Idle
    /\ status_label = Idle
    /\ report_file = Idle
    /\ payload = Idle
    /\ NoWindow

\* bitdepth_from_pixfmt(pix_fmt)
BitDepth ==
    /\ pc = "start"
    /\ ret' = bitdepth_from_pixfmt(arg)
    /\ pc' = "measured"
    /\ UNCHANGED <<file, hash_algo, decoder, built, media_profile, profile_spec, validation, sniffed, arg,
                 active_profile, profile_file, code, status_label, report_file, payload, window>>

SpecBitDepth == InitBitDepth /\ [][BitDepth]_vars

---------------------------------------------------------------------------

\* ---- classify_farbraum called on its own

\* Non-empty pixel-format names (classify_farbraum is called under `if pix_fmt`).
FarbraumNames ==
    (PixNames \ {<< >>})
    \cup {<<"u","y","v","y","4","2","2">>, <<"y","u","y","v","4","2","2">>, <<"U","Y","V","Y","4","2","2">>, <<"p","1","1","6","l","e">>, <<"p","2","1","0","l","e">>, <<"p","a","l","8">>, <<"b","a","y","e","r","_","r","g","g","b","8">>,
          <<"G","r","a","y">>, <<"Y","A","1","6","b","e">>, <<"y","2","1","0","l","e">>, <<"x","y","z","1","2","l","e">>, <<"g">>, <<"n","v">>, <<"a","y","u","v","6","4","l","e">>, <<"0","r","g","b">>}

InitFarbraum ==
    /\ pc = "start"
    /\ file = Idle
    /\ hash_algo = Idle
    /\ decoder = Idle
    /\ built = Idle
    /\ media_profile = Idle
    /\ profile_spec = Idle
    /\ validation = Idle
    /\ sniffed = Idle
    /\ arg \in FarbraumNames
    /\ ret = Idle
    /\ active_profile = Idle
    /\ profile_file = Idle
    /\ code = Idle
    /\ status_label = Idle
    /\ report_file = Idle
    /\ payload = Idle
    /\ NoWindow

\* classify_farbraum(pix_fmt)
Classify ==
    /\ pc = "start"
    /\ ret' = PyStr(classify_farbraum(arg))
    /\ pc' = "classified"
    /\ UNCHANGED <<file, hash_algo, decoder, built, media_profile, profile_spec, validation, sniffed, arg,
                 active_profile, profile_file, code, status_label, report_file, payload, window>>

SpecFarbraum == InitFarbraum /\ [][Classify]_vars

---------------------------------------------------------------------------

\* Decoder behaviours for decode_video_info alone: those above and streams
\* and containers that report a duration of 0.
DecodeInputs ==
    Decoders
    \cup {Decoder("ok", TRUE, tb, sdur, cdur, <<"y","u","v","4","2","0","p">>, pts, FALSE) :
            tb \in {None, TimeBase25}, sdur \in {None, PyInt(0), PyInt(50)},
            cdur \in {None, PyInt(0), PyInt(1)},
            pts \in {<< >>, Pts(<<1>>), Pts(<<0, 2>>), Pts(<<2, 2>>), Pts(<<2, 1>>),
                     <<None, PyInt(1)>>}}

InitDecode ==
    /\ pc = "start"
    /\ file = Idle
    /\ hash_algo = Idle
    /\ decoder \in DecodeInputs
    /\ built = Idle
    /\ media_profile = Idle
    /\ profile_spec = Idle
    /\ validation = Idle
    /\ sniffed = Idle
    /\ arg = Idle
    /\ ret = Idle
    /\ active_profile = Idle
    /\ profile_file = Idle
    /\ code = Idle
    /\ status_label = Idle
    /\ report_file = Idle
    /\ payload = Idle
    /\ NoWindow

\* decode_video_info(path)
Decode ==
    /\ pc = "start"
    /\ ret' = decode_video_info(decoder)
    /\ pc' = "decoded"
    /\ UNCHANGED <<file, hash_algo, decoder, built, media_profile, profile_spec, validation, sniffed, arg,
                 active_profile, profile_file, code, status_label, report_file, payload, window>>

SpecDecode == InitDecode /\ [][Decode]_vars

---------------------------------------------------------------------------

\* ---- the GUI showing the expected value of one range criterion

RangeKeys == {<<"b","i","t","_","t","i","e","f","e">>, <<"b","i","l","d","r","a","t","e","_","f","p","s">>, K_videolaenge_s,
              K_aufloesung \o <<".","x">>, K_aufloesung \o <<".","y">>}

\* Bounds of a range entry: numbers as the editor's default profile has them,
\* and the non-numeric bounds (none, key missing, empty text).  The floats
\* are multiples of 0.002, so that the midpoint of two bounds is exact at the
\* resolution of Scale.
NumericBounds ==
    {PyInt(0), PyInt(1), PyInt(16), PyInt(99999),
     PyFloat(0), PyFloat(25 * Scale), PyFloat(23976), PyFloat(100000 * Scale)}
RangeBounds == NumericBounds \cup {None, Absent, PyStr(<< >>)}

RangeValues == {None, PyInt(8), PyInt(1920), PyFloat(25 * Scale)}

InitExpected ==
    /\ pc = "start"
    /\ file = Idle
    /\ hash_algo = Idle
    /\ decoder = Idle
    /\ built = Idle
    /\ media_profile = Idle
    /\ profile_spec \in {MinMax(mn, mx) : mn \in RangeBounds, mx \in RangeBounds} \cup {None}
    /\ validation = Idle
    /\ sniffed = Idle
    /\ arg \in {[key |-> k, num |-> n] : k \in RangeKeys, n \in RangeValues}
    /\ ret = Idle
    /\ active_profile = Idle
    /\ profile_file = Idle
    /\ code = Idle
    /\ status_label = Idle
    /\ report_file = Idle
    /\ payload = Idle
    /\ NoWindow

\* The engine evaluates the criterion: _in_range(num, spec).
EvaluateRange ==
    /\ pc = "start"
    /\ validation' = _in_range(arg.num, profile_spec)
    /\ pc' = "evaluated"
    /\ UNCHANGED <<file, hash_algo, decoder, built, media_profile, profile_spec, sniffed, arg, ret,
                 active_profile, profile_file, code, status_label, report_file, payload, window>>

\* The GUI reads the info text of the report, unless it is 'keine Prüfung':
\* _parse_range_info(info) and _expected_from_info(key, info).
ShowExpected ==
    /\ pc = "evaluated"
    /\ validation.info # KeinePruefung
    /\ ret' = [parsed |-> _parse_range_info(strip(validation.info)),
               expected |-> _expected_from_info(arg.key, validation.info)]
    /\ pc' = "expected"
    /\ UNCHANGED <<file, hash_algo, decoder, built, media_profile, profile_spec, validation, sniffed, arg,
                 active_profile, profile_file, code, status_label, report_file, payload, window>>

NextExpected == EvaluateRange \/ ShowExpected

SpecExpected == InitExpected /\ [][NextExpected]_vars

---------------------------------------------------------------------------

\* ---- the main window: user events and worker signals

MaxWorkers == 3

\* The paths the user adds or drops.
PathNames == {<<"a",".","m","p","4">>, <<"b",".","m","o","v">>}

\* The lists of paths one 'add' or one drop hands to add_files.
Drops == {<<p>> : p \in PathNames} \cup {<<p, q>> : p \in PathNames, q \in PathNames}

\* The exit codes a check reports.
WorkerCodes == {ExitPass, ExitFail}

InitWindow ==
    /\ pc = "window"
    /\ file = Idle
    /\ hash_algo = Idle
    /\ decoder = Idle
    /\ built = Idle
    /\ media_profile = Idle
    /\ profile_spec = Idle
    /\ validation = Idle
    /\ sniffed = Idle
    /\ arg = Idle
    /\ ret = Idle
    /\ active_profile = Idle
    /\ profile_file = Idle
    /\ code = Idle
    /\ status_label = Idle
    /\ report_file = Idle
    /\ payload = Idle
    /\ files = << >>
    /\ rows = << >>
    /\ btn_run = TRUE
    /\ worker = None
    /\ threads = << >>
    /\ events = << >>
    /\ check_media \in BOOLEAN

\* `f in fs`
InList(f, fs) == \E i \in 1..Len(fs) : fs[i] = f

\* The paths of new that add_files appends, in order: those not yet listed.
RECURSIVE Appended(_, _)
Appended(fs, new) ==
    IF new = << >> THEN << >>
    ELSE IF InList(new[1], fs) THEN Appended(fs, Tail(new))
    ELSE <<new[1]>> \o Appended(Append(fs, new[1]), Tail(new))

\* run_checks() with the list fs and the table rws: nothing without files or
\* without check_media.py; else every row shows 'LÄUFT...', the button is
\* disabled and a new Worker is started on the list; the Worker that
\* self.worker referred to is let go, running or not.
run_checks(fs, rws) ==
    IF fs = << >> \/ ~check_media
    THEN /\ rows' = rws
         /\ UNCHANGED <<btn_run, worker, threads>>
    ELSE /\ rows' = [i \in 1..Len(rws) |-> [path |-> rws[i].path, status |-> <<"L","Ä","U","F","T",".",".",".">>]]
         /\ btn_run' = FALSE
         /\ worker' = [id |-> Len(threads) + 1]
         /\ threads' = Append(threads, [state |-> "running", idx |-> 0])

\* add_files(files): files added with the button or dropped on the window.
add_files ==
    /\ pc = "window"
    /\ Len(threads) < MaxWorkers
    /\ \E new \in Drops :
          LET added == Appended(files, new)
          IN  /\ added # << >>
              /\ files' = files \o added
              /\ run_checks(files \o added,
                            rows \o [i \in 1..Len(added) |-> [path |-> added[i], status |-> <<"W","A","R","T","E","T">>]])
    /\ UNCHANGED <<pc, file, hash_algo, decoder, built, media_profile, profile_spec, validation, sniffed,
                 arg, ret, active_profile, profile_file, code, status_label, report_file, payload,
                 events, check_media>>

\* The user clicks 'Prüfen', which an enabled button allows.
ClickRun ==
    /\ pc = "window"
    /\ btn_run
    /\ Len(threads) < MaxWorkers
    /\ run_checks(files, rows)
    /\ UNCHANGED <<pc, file, hash_algo, decoder, built, media_profile, profile_spec, validation, sniffed,
                 arg, ret, active_profile, profile_file, code, status_label, report_file, payload,
                 files, events, check_media>>

\* clear_all(): the user clicks 'Leeren'.
clear_all ==
    /\ pc = "window"
    /\ files' = << >>
    /\ rows' = << >>
    /\ UNCHANGED <<pc, file, hash_algo, decoder, built, media_profile, profile_spec, validation, sniffed,
                 arg, ret, active_profile, profile_file, code, status_label, report_file, payload,
                 btn_run, worker, threads, events, check_media>>

\* One round of the loop of Worker.run in thread w: the next path of the
\* shared list is checked and finished_one is emitted.
WorkerChecks(w) ==
    /\ pc = "window"
    /\ threads[w].state = "running"
    /\ threads[w].idx < Len(files)
    /\ \E c \in WorkerCodes :
          events' = Append(events, [sig |-> "finished_one", path |-> files[threads[w].idx + 1], code |-> c])
    /\ threads' = [threads EXCEPT ![w].idx = @ + 1]
    /\ UNCHANGED <<pc, file, hash_algo, decoder, built, media_profile, profile_spec, validation, sniffed,
                 arg, ret, active_profile, profile_file, code, status_label, report_file, payload,
                 files, rows, btn_run, worker, check_media>>

\* The loop of Worker.run in thread w is over: finished_all is emitted and the
\* thread ends.  A Worker that self.worker no longer refers to is destroyed
\* as its run() returns, while its thread is still winding down: the process
\* goes on or is aborted.
WorkerEnds(w) ==
    /\ pc = "window"
    /\ threads[w].state = "running"
    /\ threads[w].idx >= Len(files)
    /\ events' = Append(events, [sig |-> "finished_all", path |-> << >>, code |-> 0])
    /\ threads' = [threads EXCEPT ![w].state = "finished"]
    /\ IF worker = [id |-> w] THEN pc' = "window" ELSE pc' \in {"window", "aborted"}
    /\ UNCHANGED <<file, hash_algo, decoder, built, media_profile, profile_spec, validation, sniffed,
                 arg, ret, active_profile, profile_file, code, status_label, report_file, payload,
                 files, rows, btn_run, worker, check_media>>

\* The GUI thread delivers the oldest queued signal: finished_one to
\* update_result, finished_all to finish_run.
Deliver ==
    /\ pc = "window"
    /\ events # << >>
    /\ events' = Tail(events)
    /\ IF events[1].sig = "finished_one"
       THEN LET hits == {i \in 1..Len(rows) : rows[i].path = events[1].path}
            IN  /\ rows' = [i \in 1..Len(rows) |->
                              IF hits # {} /\ i = (CHOOSE h \in hits : \A j \in hits : h <= j)
                              THEN [path |-> rows[i].path, status |-> StatusLabel(events[1].code)]
                              ELSE rows[i]]
                /\ UNCHANGED btn_run
       ELSE /\ btn_run' = TRUE
            /\ UNCHANGED rows
    /\ UNCHANGED <<pc, file, hash_algo, decoder, built, media_profile, profile_spec, validation, sniffed,
                 arg, ret, active_profile, profile_file, code, status_label, report_file, payload,
                 files, worker, threads, check_media>>

NextWindow ==
    \/ add_files
    \/ ClickRun
    \/ clear_all
    \/ \E w \in 1..Len(threads) : WorkerChecks(w)
    \/ \E w \in 1..Len(threads) : WorkerEnds(w)
    \/ Deliver

SpecWindow == InitWindow /\ [][NextWindow]_vars

---------------------------------------------------------------------------

\* ---- the sniffed container checked against the editor's default target values

\* ProfileEditor._default_profile()
_default_profile ==
    Dict(<<
        <<K_aufloesung, Dict(<< <<<<"x">>, MinMax(PyInt(0), PyInt(99999))>>,
                                <<<<"y">>, MinMax(PyInt(0), PyInt(99999))>> >>)>>,
        <<<<"b","i","l","d","r","a","t","e","_","f","p","s">>, MinMax(PyFloat(0), PyFloat(1000 * Scale))>>,
        <<K_videolaenge_s, MinMax(PyFloat(0), PyFloat(100000 * Scale))>>,
        <<<<"f","r","a","m","e","_","r","a","t","e","_","m","o","d","e">>, PyStr(<<"C","F","R",","," ","V","F","R">>)>>,
        <<<<"f","a","r","b","r","a","u","m">>, PyStr(<<"R","G","B",","," ","Y","U","V",","," ","G","R","A","Y">>)>>,
        <<<<"b","i","t","_","t","i","e","f","e">>, MinMax(PyInt(1), PyInt(16))>>,
        <<<<"d","a","t","e","i","f","o","r","m","a","t">>, PyStr(<<"m","p","4",","," ","m","o","v",","," ","m","k","v",","," ","t","s",","," ","m","x","f",","," ","a","v","i",","," ","w","e","b","m">>)>> >>)

InitDateiformat ==
    /\ pc = "start"
    /\ file \in SniffFiles
    /\ hash_algo = Idle
    /\ decoder = Idle
    /\ built = Idle
    /\ media_profile = Idle
    /\ profile_spec = _default_profile
    /\ validation = Idle
    /\ sniffed = Idle
    /\ arg = Idle
    /\ ret = Idle
    /\ active_profile = Idle
    /\ profile_file = Idle
    /\ code = Idle
    /\ status_label = Idle
    /\ report_file = Idle
    /\ payload = Idle
    /\ NoWindow

\* The dateiformat check of validate_full on the sniffed label:
\* _in_allowed(profile.get("dateiformat"), _as_allowed_list(pf.get("dateiformat")))
CheckDateiformat ==
    /\ pc = "sniffed"
    /\ ~Raised(sniffed)
    /\ validation' = _in_allowed(PyStr(sniffed.v),
                                 _as_allowed_list(Get(profile_spec, <<"d","a","t","e","i","f","o","r","m","a","t">>, None)))
    /\ pc' = "format checked"
    /\ UNCHANGED <<file, hash_algo, decoder, built, media_profile, profile_spec, sniffed, arg, ret,
                 active_profile, profile_file, code, status_label, report_file, payload, window>>

NextDateiformat == Sniff \/ CheckDateiformat

SpecDateiformat == InitDateiformat /\ [][NextDateiformat]_vars

---------------------------------------------------------------------------

\* ---- the GUI computing the fail ratio of a report

\* Worker._compute_fail_ratio(report) on the report main() builds from the
\* validation.
ComputeFailRatio ==
    /\ pc = "validated"
    /\ ~Raised(validation)
    /\ payload' = _compute_fail_ratio(Report("this", media_profile, validation))
    /\ pc' = "ratio"
    /\ UNCHANGED <<file, hash_algo, decoder, built, media_profile, profile_spec, validation, sniffed, arg, ret,
                 active_profile, profile_file, code, status_label, report_file, window>>

NextFailRatio == Validate \/ ComputeFailRatio

SpecFailRatio == InitValidate /\ [][NextFailRatio]_vars

---------------------------------------------------------------------------

\* Reading the state

Field(prof, key) == Get(prof, key, None)
Axis(prof, axis) == Get(Get(prof, K_aufloesung, EmptyMap), axis, None)

\* The seven derived technical fields are all null.
TechnicalFieldsNull(prof) ==
    /\ IsNone(Axis(prof, <<"x">>))
    /\ IsNone(Axis(prof, <<"y">>))
    /\ IsNone(Field(prof, <<"b","i","l","d","r","a","t","e","_","f","p","s">>))
    /\ IsNone(Field(prof, <<"f","r","a","m","e","_","r","a","t","e","_","m","o","d","e">>))
    /\ IsNone(Field(prof, <<"f","a","r","b","r","a","u","m">>))
    /\ IsNone(Field(prof, <<"b","i","t","_","t","i","e","f","e">>))
    /\ IsNone(Field(prof, K_videolaenge_s))

Criteria == 1..Len(CRITERIA_ORDER)
AllowCriteria == {1, 2, 6}
RangeCriteria == {3, 4, 5}
AxisOf(i) == IF i = 7 THEN <<"x">> ELSE <<"y">>

\* The (ok, info, counted) triples behind the validation of the current state.
CurrentChecks == criterion_checks(media_profile, SpecOrEmpty(profile_spec))

\* The spec's entry for criterion i of a key/value spec, Absent when it has none.
\* A non-map "auflösung" is the entry of both of its axes.
Entry(spec, i) ==
    IF i \in AllowCriteria \cup RangeCriteria THEN Get(spec, CRITERIA_ORDER[i], Absent)
    ELSE LET a == Get(spec, K_aufloesung, Absent)
         IN  IF a # Absent /\ IsDict(a) THEN Get(a, AxisOf(i), Absent) ELSE a

\* The entry has the wrong shape for the check kind of criterion i.
Malformed(spec, i) ==
    LET e == Entry(spec, i)
    IN  /\ e # Absent
        /\ ~IsNone(e)
        /\ IF i \in AllowCriteria THEN ~IsStr(e) /\ ~IsList(e) ELSE ~IsDict(e)

\* The entry has the shape of a constraint for criterion i: a str with an item
\* or a list for an allow-list, a map for a range.
Constrains(spec, i) ==
    LET e == Entry(spec, i)
    IN  /\ e # Absent
        /\ IF i \in AllowCriteria
           THEN \/ IsList(e)
                \/ IsStr(e) /\ \E k \in 1..Len(e.v) : ~IsSpace(e.v[k]) /\ e.v[k] # ","
           ELSE IsDict(e)

NoCheck(d) == d.ok /\ d.info = KeinePruefung
ValueMissing(d) == ~d.ok /\ d.info = WertFehlt

ZeroByteProfile == build_media_profile(EmptyFile, <<"s","h","a","2","5","6">>, OpenFails).prof

---------------------------------------------------------------------------
\* Claims

\* C1: validate_full is total: for every profile and every spec value it returns
\* a status and the eight criterion details and never raises.
C1_ValidateFullTotal ==
    pc = "validated" =>
        /\ ~Raised(validation)
        /\ validation.status \in {<<"p","a","s","s","e","n","d">>, <<"f","a","i","l","e","d">>}
        /\ Len(validation.details) = Len(CRITERIA_ORDER)

\* C2: in a key/value spec, an entry of the wrong shape for its check kind gives
\* its criterion ok=true, info 'keine Prüfung', uncounted; so a spec whose every
\* field is absent or malformed gives status 'passend' for every profile.
C2_MalformedEntryIsNoConstraint ==
    (pc = "validated" /\ IsDict(profile_spec)) =>
        /\ \A i \in Criteria :
              Malformed(profile_spec, i) =>
                  /\ ~Raised(CurrentChecks[i])
                  /\ NoCheck(CurrentChecks[i])
                  /\ ~CurrentChecks[i].counted
        /\ (\A i \in Criteria :
                Entry(profile_spec, i) = Absent \/ Malformed(profile_spec, i))
           => (~Raised(validation) /\ validation.status = <<"p","a","s","s","e","n","d">>)

\* C3: with a null spec or an empty map, validate_full returns status 'passend'
\* and each of the eight criteria has ok=true and info 'keine Prüfung'.
C3_EmptySpecPasses ==
    (pc = "validated" /\ (profile_spec = None \/ profile_spec = EmptyMap)) =>
        /\ ~Raised(validation)
        /\ validation.status = <<"p","a","s","s","e","n","d">>
        /\ Len(validation.details) = 8
        /\ \A i \in Criteria : NoCheck(validation.details[i])

\* C3 witness: an empty map was validated against a readable profile.
C3_Witness ==
    /\ pc = "validated"
    /\ profile_spec = EmptyMap
    /\ Field(media_profile, <<"l","e","s","b","a","r">>) = PyBool(TRUE)
    /\ validation.status = <<"p","a","s","s","e","n","d">>

\* C4: whenever validate_full returns, the status is 'passend' iff every counted
\* criterion has ok=true (also when none is counted) and 'failed' iff some
\* counted criterion has ok=false; uncounted criteria do not matter.
C4_Aggregation ==
    (pc = "validated" /\ ~Raised(validation)) =>
        LET counted == {i \in Criteria : CurrentChecks[i].counted}
        IN  /\ validation.status = <<"p","a","s","s","e","n","d">>
                <=> \A i \in counted : validation.details[i].ok
            /\ validation.status = <<"f","a","i","l","e","d">>
                <=> \E i \in counted : ~validation.details[i].ok
            /\ counted = {} => validation.status = <<"p","a","s","s","e","n","d">>

\* C4 witness: a counted failure decides the status although a later counted
\* criterion passes and others are uncounted.
C4_Witness ==
    /\ pc = "validated"
    /\ ~Raised(validation)
    /\ validation.status = <<"f","a","i","l","e","d">>
    /\ LET counted == {i \in Criteria : CurrentChecks[i].counted}
       IN  /\ counted # Criteria
           /\ \E i, j \in counted :
                  i < j /\ ~validation.details[i].ok /\ validation.details[j].ok

\* C5: build_media_profile never fails outward: a decoder that cannot open the
\* file and a decoder that raises while the frames are iterated both leave a
\* degraded profile (lesbar=false) instead of an exception.
C5_DecoderFailuresAreCaught ==
    (pc = "built" /\ file.exists /\ file.readable /\ Len(file.data) > 0
        /\ (decoder.open # "ok" \/ decoder.fails)) =>
        /\ ~Raised(built)
        /\ Field(built.prof, <<"l","e","s","b","a","r">>) = PyBool(FALSE)

\* C6: in every returned profile, lesbar=false implies that all seven derived
\* technical fields are null.
C6_UnreadableHasNoTechnicalFields ==
    (pc = "built" /\ ~Raised(built) /\ Field(built.prof, <<"l","e","s","b","a","r">>) = PyBool(FALSE)) =>
        TechnicalFieldsNull(built.prof)

\* C7: for a missing or zero-length file the profile has non_zero_bytes=false,
\* lesbar=false, dateiformat=null, every technical field null and a null hash,
\* and neither the sniffer nor the hasher nor the decoder was invoked.
C7_MissingOrEmptyFile ==
    (pc = "built" /\ (~file.exists \/ Len(file.data) = 0)) =>
        /\ ~Raised(built)
        /\ Field(built.prof, <<"n","o","n","_","z","e","r","o","_","b","y","t","e","s">>) = PyBool(FALSE)
        /\ Field(built.prof, <<"l","e","s","b","a","r">>) = PyBool(FALSE)
        /\ IsNone(Field(built.prof, <<"d","a","t","e","i","f","o","r","m","a","t">>))
        /\ TechnicalFieldsNull(built.prof)
        /\ IsNone(Get(Field(built.prof, <<"f","i","l","e","_","i","d">>), <<"h","a","s","h">>, Absent))
        /\ built.calls = {}

\* C7 witness: the profile of an existing zero-length file was built.
C7_Witness ==
    /\ pc = "built"
    /\ file.exists
    /\ Len(file.data) = 0
    /\ ~Raised(built)
    /\ Field(built.prof, <<"f","i","l","e","n","a","m","e">>) = PyStr(<<"c","l","i","p",".","m","p","4">>)

\* C8: validating the profile of a zero-byte file against any non-empty spec
\* does not raise, and every field the spec constrains gets ok=false, info
\* 'Wert fehlt' and is counted.
C8_ZeroByteRoundTrip ==
    (pc = "validated" /\ media_profile = ZeroByteProfile /\ Truthy(profile_spec)) =>
        /\ ~Raised(validation)
        /\ \A i \in Criteria :
              Constrains(profile_spec, i) =>
                  /\ ValueMissing(validation.details[i])
                  /\ CurrentChecks[i].counted

\* The part of C8 that the code keeps: the same for every spec that is a
\* non-empty key/value map.
C8_ZeroByteRoundTripOfMaps ==
    (pc = "validated" /\ media_profile = ZeroByteProfile
        /\ Truthy(profile_spec) /\ IsDict(profile_spec)) =>
        /\ ~Raised(validation)
        /\ \A i \in Criteria :
              Constrains(profile_spec, i) =>
                  /\ ValueMissing(validation.details[i])
                  /\ CurrentChecks[i].counted

\* C9: in every built profile auflösung.x and auflösung.y are both null or both
\* set, and farbraum and bit_tiefe are both null or both set.
C9_Pairing ==
    (pc = "built" /\ ~Raised(built)) =>
        /\ IsNone(Axis(built.prof, <<"x">>)) <=> IsNone(Axis(built.prof, <<"y">>))
        /\ IsNone(Field(built.prof, <<"f","a","r","b","r","a","u","m">>)) <=> IsNone(Field(built.prof, <<"b","i","t","_","t","i","e","f","e">>))

\* C9 witness: a profile built from decoded frames whose pixel format has no
\* digits and is not one of the well-known names, with both pairs set.
C9_Witness ==
    /\ pc = "built"
    /\ ~Raised(built)
    /\ Len(decoder.frames) > 0
    /\ decoder.frames[1].format = <<"m","o","n","o","w">>
    /\ Axis(built.prof, <<"x">>) = PyInt(640)
    /\ Axis(built.prof, <<"y">>) = PyInt(480)
    /\ Field(built.prof, <<"f","a","r","b","r","a","u","m">>) = PyStr(<<"U","N","K","N","O","W","N">>)
    /\ Field(built.prof, <<"b","i","t","_","t","i","e","f","e">>) = PyInt(8)

\* `ftyp` stands in the file at byte offset o.
FtypAt(data, o) == o + 4 <= Len(data) /\ SubSeq(data, o + 1, o + 4) = B(<<"f","t","y","p">>)

\* C10 as claimed: for every existing file in which `ftyp` starts anywhere
\* within the first 64 bytes, sniff_container returns 'mp4/mov'.
C10_FtypStartingInWindow ==
    (pc = "sniffed" /\ file.exists /\ file.readable
        /\ \E o \in 0..(FtypWindow - 1) : FtypAt(file.data, o)) =>
        (~Raised(sniffed) /\ sniffed.v = <<"m","p","4","/","m","o","v">>)

\* C10 as amended: for every existing, readable file in which `ftyp` lies
\* entirely within the first 64 bytes (it starts at an offset 0..60),
\* sniff_container returns 'mp4/mov', whatever other signature matches.
C10_FtypInsideWindow ==
    (pc = "sniffed" /\ file.exists /\ file.readable
        /\ \E o \in 0..(FtypWindow - 4) : FtypAt(file.data, o)) =>
        (~Raised(sniffed) /\ sniffed.v = <<"m","p","4","/","m","o","v">>)

\* C10 witness: a RIFF/AVI header followed by `ftyp` at the last offset that
\* fits the window was sniffed as 'mp4/mov'.
C10_Witness ==
    /\ pc = "sniffed"
    /\ startswith(file.data, B(<<"R","I","F","F">>))
    /\ Len(file.data) >= RiffMinLen
    /\ SubSeq(file.data, 9, 12) = B(<<"A","V","I"," ">>)
    /\ FtypAt(file.data, FtypWindow - 4)
    /\ \A o \in 0..(FtypWindow - 5) : ~FtypAt(file.data, o)
    /\ sniffed.v = <<"m","p","4","/","m","o","v">>

---------------------------------------------------------------------------
\* C11

\* The buffer starts with `RIFF`, holds any four bytes at offsets 4..7 and
\* the given form type at offsets 8..11.
RiffForm(data, form) ==
    /\ Len(data) >= RiffMinLen
    /\ SubSeq(data, 1, 4) = B(<<"R","I","F","F">>)
    /\ SubSeq(data, 9, 12) = B(form)

\* C11 as claimed: every buffer that starts with `RIFF`, any four bytes and
\* `AVI ` is sniffed as 'avi', and with `WAVE` as 'wav', whatever the bytes
\* 4..7 and whatever follows offset 12.
C11_RiffFormDecides ==
    (pc = "sniffed" /\ file.exists /\ file.readable) =>
        /\ RiffForm(file.data, <<"A","V","I"," ">>) => (~Raised(sniffed) /\ sniffed.v = <<"a","v","i">>)
        /\ RiffForm(file.data, <<"W","A","V","E">>) => (~Raised(sniffed) /\ sniffed.v = <<"w","a","v">>)

\* C11 as amended: a readable buffer that starts with `RIFF`, any four bytes
\* and `AVI ` is sniffed as 'avi', and with `WAVE` as 'wav', provided `ftyp`
\* does not lie entirely within its first 64 bytes (neither at offsets 4..7
\* nor after offset 12).
C11_RiffFormWithoutFtyp ==
    (pc = "sniffed" /\ file.exists /\ file.readable
        /\ \A o \in 0..(FtypWindow - 4) : ~FtypAt(file.data, o)) =>
        /\ RiffForm(file.data, <<"A","V","I"," ">>) => (~Raised(sniffed) /\ sniffed.v = <<"a","v","i">>)
        /\ RiffForm(file.data, <<"W","A","V","E">>) => (~Raised(sniffed) /\ sniffed.v = <<"w","a","v">>)

\* C11 witness: a RIFF/WAVE header whose remaining bytes also look like an
\* MPEG transport stream was sniffed as 'wav', and a RIFF/AVI header with
\* `ftyp` just past the 64-byte window as 'avi'.
C11_Witness ==
    /\ pc = "sniffed"
    /\ \/ /\ RiffForm(file.data, <<"W","A","V","E">>)
          /\ Len(file.data) = TsPacket * TsPackets
          /\ \A i \in (RiffMinLen + 1)..Len(file.data) : file.data[i] = SyncByte
          /\ sniffed.v = <<"w","a","v">>
       \/ /\ RiffForm(file.data, <<"A","V","I"," ">>)
          /\ FtypAt(file.data, FtypWindow - 3)
          /\ sniffed.v = <<"a","v","i">>

---------------------------------------------------------------------------
\* C12: sniff_container returns 'unknown' for a path that does not exist and
\* for every file shorter than 4 bytes, whatever the bytes are and whether
\* or not the file could be opened.
C12_MissingOrShortIsUnknown ==
    (pc = "sniffed" /\ (~file.exists \/ Len(file.data) < MinSniffSize)) =>
        (~Raised(sniffed) /\ sniffed.v = <<"u","n","k","n","o","w","n">>)

\* C12 witness: a readable 3-byte file holding the first three bytes of the
\* RIFF signature was sniffed as 'unknown'.
C12_Witness ==
    /\ pc = "sniffed"
    /\ file.exists /\ file.readable
    /\ file.data = SubSeq(B(<<"R","I","F","F">>), 1, MinSniffSize - 1)
    /\ sniffed = [exc |-> NoExc, v |-> <<"u","n","k","n","o","w","n">>]

---------------------------------------------------------------------------
\* C13, C14

\* The positions i whose timestamp is strictly greater than its predecessor.
Rising(ts) == {i \in 2..Len(ts) : ts[i] > ts[i - 1]}

\* C13: detect_frame_rate_mode returns null for every sequence of 0, 1 or 2
\* timestamps whatever the values, and for every longer sequence in which no
\* timestamp is strictly greater than its predecessor.
C13_TooFewOrNoRise ==
    (pc = "detected" /\ (Len(arg) <= 2 \/ Rising(arg) = {})) => ret = None

\* C13 witness: five timestamps none of which rises gave null.
C13_Witness ==
    /\ pc = "detected"
    /\ ret = None
    /\ arg = <<120, 80, 40, 40, 0>>

\* The k-th smallest of the rising deltas of ts, as an order statistic.
KthDelta(ts, k) ==
    LET d(i) == ts[i] - ts[i - 1]
    IN  CHOOSE v \in {d(i) : i \in Rising(ts)} :
            /\ Cardinality({i \in Rising(ts) : d(i) < v}) < k
            /\ k <= Cardinality({i \in Rising(ts) : d(i) <= v})

\* Whether at least 95 % of the rising deltas of ts deviate from their median
\* by at most 0.5 % of it.
NearlyConstant(ts) ==
    LET n == Cardinality(Rising(ts))
        med2 == IF n % 2 = 1 THEN 2 * KthDelta(ts, (n + 1) \div 2)
                ELSE KthDelta(ts, n \div 2) + KthDelta(ts, n \div 2 + 1)
        near == {i \in Rising(ts) :
                    200 * Abs(2 * (ts[i] - ts[i - 1]) - med2) <= med2}
    IN  20 * Cardinality(near) >= 19 * n

\* C14: for three or more timestamps with at least one strictly positive
\* adjacent delta, the result is 'CFR' exactly when the fraction of positive
\* deltas within 0.005 (relative) of their median is at least 0.95, and
\* 'VFR' otherwise; (0, 40, 80, 120, 160 ms) is CFR and
\* (0, 40, 90, 200, 210 ms) is VFR.
C14_CfrIffNearlyConstant ==
    (pc = "detected" /\ Len(arg) >= 3 /\ Rising(arg) # {}) =>
        /\ ret = IF NearlyConstant(arg) THEN PyStr(<<"C","F","R">>) ELSE PyStr(<<"V","F","R">>)
        /\ arg = <<0, 40, 80, 120, 160>> => ret = PyStr(<<"C","F","R">>)
        /\ arg = <<0, 40, 90, 200, 210>> => ret = PyStr(<<"V","F","R">>)

\* C14 witness: 21 timestamps 40 ms apart but for one gap of 200 ms gave
\* 'CFR' (19 of 20 deltas are at the median).
C14_Witness ==
    /\ pc = "detected"
    /\ Len(arg) = LongLen
    /\ Cardinality({i \in Rising(arg) : arg[i] - arg[i - 1] = 40}) = LongLen - 2
    /\ ret = PyStr(<<"C","F","R">>)

---------------------------------------------------------------------------
\* C15, C16

\* The key/value spec without its entry for criterion i.
Without(spec, i) ==
    LET drop(m, k) == PyMap([q \in (DOMAIN m.v) \ {k} |-> m.v[q]])
        a == Get(spec, K_aufloesung, Absent)
    IN  IF i \in AllowCriteria \cup RangeCriteria THEN drop(spec, CRITERIA_ORDER[i])
        ELSE IF a # Absent /\ IsDict(a)
            THEN PyMap([spec.v EXCEPT ![K_aufloesung] = drop(a, AxisOf(i))])
        ELSE drop(spec, K_aufloesung)

\* C15: criteria are evaluated independently: when a range criterion fails
\* (as bildrate_fps = 23.9 against {min: 24, max: 30} does), the ok and info
\* of every other criterion are exactly what they are when the failing
\* criterion's entry is absent from the spec.
C15_FailureLeavesOthersAlone ==
    (pc = "validated" /\ IsDict(profile_spec) /\ ~Raised(validation)) =>
        /\ \A i \in RangeCriteria \cup {7, 8} :
              ~validation.details[i].ok =>
                  LET other == validate_full(media_profile, Without(profile_spec, i))
                  IN  /\ ~Raised(other)
                      /\ \A j \in Criteria \ {i} : other.details[j] = validation.details[j]
        /\ (/\ Field(media_profile, <<"b","i","l","d","r","a","t","e","_","f","p","s">>) = PyFloat(239 * (Scale \div 10))
            /\ Entry(profile_spec, 4) = MinMax(PyInt(24), PyInt(30)))
           => ~validation.details[4].ok

\* C15 witness: bildrate_fps = 23.9 failed against {min: 24, max: 30} while a
\* criterion before it and one after it were counted and passed.
C15_Witness ==
    /\ pc = "validated"
    /\ ~Raised(validation)
    /\ IsDict(profile_spec)
    /\ Field(media_profile, <<"b","i","l","d","r","a","t","e","_","f","p","s">>) = PyFloat(239 * (Scale \div 10))
    /\ Entry(profile_spec, 4) = MinMax(PyInt(24), PyInt(30))
    /\ validation.details[4] = [key |-> <<"b","i","l","d","r","a","t","e","_","f","p","s">>, ok |-> FALSE,
                                info |-> <<"m","i","n","=","2","4",","," ","m","a","x","=","3","0",","," ","w","e","r","t","=","2","3",".","9">>]
    /\ validation.details[3].ok /\ CurrentChecks[3].counted
    /\ validation.details[7].ok /\ CurrentChecks[7].counted
    /\ validation.status = <<"f","a","i","l","e","d">>

\* C16: the details of a validation hold exactly the eight criteria, in the
\* order dateiformat, farbraum, bit_tiefe, bildrate_fps, videolänge_s,
\* frame_rate_mode, auflösung.x, auflösung.y, whatever keys the spec holds.
C16_EightCriteriaInFixedOrder ==
    (pc = "validated" /\ ~Raised(validation)) =>
        [n \in 1..Len(validation.details) |-> validation.details[n].key]
            = << <<"d","a","t","e","i","f","o","r","m","a","t">>, <<"f","a","r","b","r","a","u","m">>, <<"b","i","t","_","t","i","e","f","e">>, <<"b","i","l","d","r","a","t","e","_","f","p","s">>, <<"v","i","d","e","o","l","ä","n","g","e","_","s">>,
                 <<"f","r","a","m","e","_","r","a","t","e","_","m","o","d","e">>, <<"a","u","f","l","ö","s","u","n","g",".","x">>, <<"a","u","f","l","ö","s","u","n","g",".","y">> >>

\* C16 witness: a spec that holds only keys the validation never reads (one
\* of them named like a criterion) was validated and gave the eight details.
C16_Witness ==
    /\ pc = "validated"
    /\ ~Raised(validation)
    /\ IsDict(profile_spec)
    /\ DOMAIN profile_spec.v = {<<"a","u","f","l","ö","s","u","n","g",".","x">>, <<"d","a","t","e","i","f","o","r","m","a","t">>}
    /\ Len(validation.details) = 8
    /\ validation.details[7].key = <<"a","u","f","l","ö","s","u","n","g",".","x">>
    /\ NoCheck(validation.details[7])

---------------------------------------------------------------------------
\* C17

\* A validation ran for the file and its status is st.
Verdict(st) ==
    /\ validation # Idle
    /\ ~Raised(validation)
    /\ validation.status = st

\* C17: the program exits with 0 exactly when a validation ran and passed,
\* with 2 exactly when a validation ran and failed, so that the PASS and FAIL
\* the GUI shows for the codes 0 and 2 always reflect a validation verdict.
C17_ExitCodesReflectVerdict ==
    /\ (pc \in {"checked", "shown"} /\ code # CodeNotRun) =>
          /\ code = 0 <=> Verdict(<<"p","a","s","s","e","n","d">>)
          /\ code = 2 <=> Verdict(<<"f","a","i","l","e","d">>)
    /\ pc = "shown" =>
          /\ status_label = <<"P","A","S","S">> => Verdict(<<"p","a","s","s","e","n","d">>)
          /\ status_label = <<"F","A","I","L">> => Verdict(<<"f","a","i","l","e","d">>)

\* C17 for the runs in which the GUI has a target-values path to pass on.
C17_ExitCodesWithProfileOption ==
    (pc \in {"checked", "shown"} /\ code # CodeNotRun /\ ~IsNone(active_profile)) =>
        /\ code = 0 <=> Verdict(<<"p","a","s","s","e","n","d">>)
        /\ code = 2 <=> Verdict(<<"f","a","i","l","e","d">>)

---------------------------------------------------------------------------
\* C18

\* The allowed items of an allow-list entry e: the comma-separated pieces of a
\* string, the elements of a list.
Items(e) ==
    IF IsStr(e) THEN {split(e.v, ",")[k] : k \in 1..Len(split(e.v, ","))}
    ELSE {str(e.v[k]) : k \in 1..Len(e.v)}

\* val equals an allowed item of e, ignoring letter case on both sides and
\* the whitespace around the item.
Allows(e, val) == \E item \in Items(e) : lower(strip(item)) = lower(val.v)

\* What C18 says of allow-list criterion i when its entry is e.
AllowListChecked(i, e) ==
    LET val == Field(media_profile, CRITERIA_ORDER[i])
        d == validation.details[i]
    IN  /\ CurrentChecks[i].counted
        /\ IF IsNone(val) THEN ValueMissing(d)
           ELSE d.ok <=> Allows(e, val)

\* C18 as claimed: whenever the spec has an entry for dateiformat, farbraum or
\* frame_rate_mode that is a comma-separated string or a list, the criterion
\* is counted; with a non-null value ok is true iff the value equals an
\* allowed item ignoring case and the whitespace around the items, and with a
\* null value ok is false with info 'Wert fehlt'.
C18_AllowListEntryIsChecked ==
    (pc = "validated" /\ IsDict(profile_spec) /\ ~Raised(validation)) =>
        \A i \in AllowCriteria :
            LET e == Entry(profile_spec, i)
            IN  (e # Absent /\ (IsStr(e) \/ IsList(e))) => AllowListChecked(i, e)

\* C18 as amended: the same for an entry that is a list, or a string with at
\* least one item that is not blank; a string of blank items only (such as ""
\* or " , ") is no entry: the criterion is not counted, ok is true and info
\* is 'keine Prüfung'.
C18_NonBlankAllowListIsChecked ==
    (pc = "validated" /\ IsDict(profile_spec) /\ ~Raised(validation)) =>
        \A i \in AllowCriteria :
            LET e == Entry(profile_spec, i)
            IN  /\ Constrains(profile_spec, i) => AllowListChecked(i, e)
                /\ (e # Absent /\ IsStr(e) /\ ~Constrains(profile_spec, i)) =>
                      (~CurrentChecks[i].counted /\ NoCheck(validation.details[i]))

\* C18 witness: the value 'RGB' was accepted by the list ['yuv', ' RGB ']
\* and the value 'mp4/mov' by the string 'mp4/mov, AVI', both counted.
C18_Witness ==
    /\ pc = "validated"
    /\ IsDict(profile_spec)
    /\ ~Raised(validation)
    /\ Field(media_profile, <<"f","a","r","b","r","a","u","m">>) = PyStr(<<"R","G","B">>)
    /\ Entry(profile_spec, 2) = PyList(<<PyStr(<<"y","u","v">>), PyStr(<<" ","R","G","B"," ">>)>>)
    /\ validation.details[2] = [key |-> <<"f","a","r","b","r","a","u","m">>, ok |-> TRUE,
                                info |-> <<"'","R","G","B","'"," ","e","r","l","a","u","b","t">>]
    /\ CurrentChecks[2].counted
    /\ Field(media_profile, <<"d","a","t","e","i","f","o","r","m","a","t">>) = PyStr(<<"m","p","4","/","m","o","v">>)
    /\ Entry(profile_spec, 1) = PyStr(<<"m","p","4","/","m","o","v",","," ","A","V","I">>)
    /\ validation.details[1].ok
    /\ CurrentChecks[1].counted

---------------------------------------------------------------------------
\* C19

\* The profile's value for criterion i.
ValueOf(i) ==
    IF i \in {7, 8} THEN Axis(media_profile, AxisOf(i))
    ELSE Field(media_profile, CRITERIA_ORDER[i])

\* A bound b of a range entry is unbounded: missing, null or a blank string.
Unbounded(b) ==
    \/ b = Absent
    \/ IsNone(b)
    \/ IsStr(b) /\ \A k \in 1..Len(b.v) : IsSpace(b.v[k])

\* A bound that is a number, or a numeral as text.
Numeric(b) ==
    /\ b # Absent
    /\ \/ b.t \in {"int", "float"}
       \/ IsStr(b) /\ ~Unbounded(b) /\ ~Raised(float(b))

\* C19: a range criterion with a non-null value whose entry is a map with
\* numeric or unbounded min and max: it is counted, ok is true iff (min is
\* unbounded or value >= min) and (max is unbounded or value <= max), and
\* info is 'min=<min or -∞>, max=<max or +∞>, wert=<value>'.
C19_RangeCheck ==
    (pc = "validated" /\ IsDict(profile_spec) /\ ~Raised(validation)) =>
        \A i \in RangeCriteria \cup {7, 8} :
            LET e == Entry(profile_spec, i)
                mn == IF e # Absent /\ IsDict(e) THEN Get(e, <<"m","i","n">>, Absent) ELSE Absent
                mx == IF e # Absent /\ IsDict(e) THEN Get(e, <<"m","a","x">>, Absent) ELSE Absent
                num == ValueOf(i)
                d == validation.details[i]
            IN  (/\ e # Absent /\ IsDict(e)
                 /\ ~IsNone(num)
                 /\ Unbounded(mn) \/ Numeric(mn)
                 /\ Unbounded(mx) \/ Numeric(mx)) =>
                    /\ CurrentChecks[i].counted
                    /\ d.ok <=> /\ Unbounded(mn) \/ AsFixed(num) >= float(mn).v
                                /\ Unbounded(mx) \/ AsFixed(num) <= float(mx).v
                    /\ d.info = <<"m","i","n","=">> \o (IF Unbounded(mn) THEN <<"-",InfSign>> ELSE str(mn))
                                \o <<","," ","m","a","x","=">> \o (IF Unbounded(mx) THEN <<"+",InfSign>> ELSE str(mx))
                                \o <<","," ","w","e","r","t","=">> \o str(num)

\* C19 witness: bit_tiefe = 8 passed {min: 8, max: 10} at the lower bound
\* and a height of 480 failed {min: '', max: 400.0} with an unbounded min.
C19_Witness ==
    /\ pc = "validated"
    /\ IsDict(profile_spec)
    /\ ~Raised(validation)
    /\ ValueOf(3) = PyInt(8)
    /\ Entry(profile_spec, 3) = MinMax(PyInt(8), PyInt(10))
    /\ validation.details[3] = [key |-> <<"b","i","t","_","t","i","e","f","e">>, ok |-> TRUE, info |-> <<"m","i","n","=","8",","," ","m","a","x","=","1","0",","," ","w","e","r","t","=","8">>]
    /\ ValueOf(8) = PyInt(480)
    /\ Entry(profile_spec, 8) = MinMax(PyStr(<< >>), PyFloat(400 * Scale))
    /\ validation.details[8] = [key |-> <<"a","u","f","l","ö","s","u","n","g",".","y">>, ok |-> FALSE,
                                info |-> <<"m","i","n","=","-",InfSign,","," ","m","a","x","=","4","0","0",".","0",","," ","w","e","r","t","=","4","8","0">>]

---------------------------------------------------------------------------
\* C20

\* Two adjacent digits stand in s at position i.
DigitPairAt(s, i) == i + 1 <= Len(s) /\ IsDigit(s[i]) /\ IsDigit(s[i + 1])

\* C20: bitdepth_from_pixfmt applies its rules in this order on the
\* lower-cased name: empty -> null; in the well-known 8-bit set -> 8; holds
\* 'p010' -> 10; holds 'p016' -> 16; holds two adjacent digits -> the number
\* of the leftmost such pair, but 8 for rgb24 / bgr24 and 16 for names that
\* start with rgba64, bgra64, argb64, abgr64, rgb48 or bgr48; otherwise 8.
\* So yuv420p -> 8, rgb24 -> 8, rgba64le -> 16, p010le -> 10.
C20_BitDepthRules ==
    pc = "measured" =>
        LET s == lower(arg)
            empty == Len(s) = 0
            known == ~empty /\ s \in KNOWN_8BIT_NO_NUMBER
            p010 == ~empty /\ ~known /\ contains(s, <<"p","0","1","0">>)
            p016 == ~empty /\ ~known /\ ~p010 /\ contains(s, <<"p","0","1","6">>)
            rest == ~empty /\ ~known /\ ~p010 /\ ~p016
            pairs == {i \in 1..Len(s) : DigitPairAt(s, i)}
            sixteen == StartsWithAny(s, {<<"r","g","b","a","6","4">>, <<"b","g","r","a","6","4">>, <<"a","r","g","b","6","4">>, <<"a","b","g","r","6","4">>, <<"r","g","b","4","8">>, <<"b","g","r","4","8">>})
        IN  /\ empty => ret = None
            /\ known => ret = PyInt(8)
            /\ p010 => ret = PyInt(10)
            /\ p016 => ret = PyInt(16)
            /\ (rest /\ pairs = {}) => ret = PyInt(8)
            /\ (rest /\ pairs # {} /\ s \in {<<"r","g","b","2","4">>, <<"b","g","r","2","4">>}) => ret = PyInt(8)
            /\ (rest /\ pairs # {} /\ s \notin {<<"r","g","b","2","4">>, <<"b","g","r","2","4">>} /\ sixteen) => ret = PyInt(16)
            /\ (rest /\ pairs # {} /\ s \notin {<<"r","g","b","2","4">>, <<"b","g","r","2","4">>} /\ ~sixteen) =>
                  \E i \in pairs :
                      /\ \A j \in pairs : i <= j
                      /\ ret = PyInt(10 * DigitVal(s[i]) + DigitVal(s[i + 1]))
            /\ arg = <<"y","u","v","4","2","0","p">> => ret = PyInt(8)
            /\ arg = <<"r","g","b","2","4">> => ret = PyInt(8)
            /\ arg = <<"r","g","b","a","6","4","l","e">> => ret = PyInt(16)
            /\ arg = <<"p","0","1","0","l","e">> => ret = PyInt(10)

\* C20 witness: the depth of 'p010le' was measured as 10 by the p010 rule,
\* although the leftmost two adjacent digits of the name are '01'.
C20_Witness ==
    /\ pc = "measured"
    /\ arg = <<"p","0","1","0","l","e">>
    /\ DigitPairAt(arg, 2)
    /\ ret = PyInt(10)

---------------------------------------------------------------------------
\* C21

\* The prefix groups of classify_farbraum with their labels.
FarbraumGroups == {
    [prefixes |-> {<<"r","g","b">>, <<"b","g","r">>, <<"g","b","r">>}, label |-> <<"R","G","B">>],
    [prefixes |-> {<<"g","r","a","y">>, <<"y","a">>}, label |-> <<"G","R","A","Y">>],
    [prefixes |-> {<<"y","u","v">>, <<"n","v">>, <<"u","y","v","y">>, <<"y","u","y","v">>, <<"p","0">>, <<"p","1">>}, label |-> <<"Y","U","V">>] }

\* The groups one of whose prefixes starts the name, letter case ignored.
GroupsOf(name) == {g \in FarbraumGroups : \E p \in g.prefixes : startswith(lower(name), p)}

\* C21: classify_farbraum gives the label of the prefix group that starts the
\* name, letter case ignored (rgb/bgr/gbr -> RGB; gray/ya -> GRAY;
\* yuv/nv/uyvy/yuyv/p0/p1 -> YUV) and UNKNOWN for every other name; no name
\* is started by two groups, so the order of the tests does not matter;
\* nv12 -> YUV, rgba -> RGB, gray -> GRAY.
C21_FarbraumByPrefix ==
    pc = "classified" =>
        /\ \A g \in GroupsOf(arg) : ret = PyStr(g.label)
        /\ GroupsOf(arg) = {} => ret = PyStr(<<"U","N","K","N","O","W","N">>)
        /\ Cardinality(GroupsOf(arg)) <= 1
        /\ \A g \in FarbraumGroups : \A h \in FarbraumGroups \ {g} :
              \A p \in g.prefixes : \A q \in h.prefixes : ~startswith(p, q) /\ ~startswith(q, p)
        /\ arg = <<"n","v","1","2">> => ret = PyStr(<<"Y","U","V">>)
        /\ arg = <<"r","g","b","a">> => ret = PyStr(<<"R","G","B">>)
        /\ arg = <<"g","r","a","y">> => ret = PyStr(<<"G","R","A","Y">>)

\* C21 witness: the upper-case name 'UYVY422' was classified as YUV.
C21_Witness ==
    /\ pc = "classified"
    /\ arg = <<"U","Y","V","Y","4","2","2">>
    /\ ret = PyStr(<<"Y","U","V">>)

---------------------------------------------------------------------------
\* C22

\* The part of the file that is read.
HeadRead(data) == SubSeq(data, 1, IF Len(data) > HeadLen THEN HeadLen ELSE Len(data))

\* buf holds at least five packets (940 bytes) and some packet offset carries
\* a sync byte in five consecutive packets, all five inside buf.
Periodic(buf) ==
    /\ Len(buf) >= 940
    /\ \E off \in 0..(TsPacket - 1) :
            \A k \in {0, 188, 376, 564, 752} :
                off + k < Len(buf) /\ buf[off + k + 1] = SyncByte

\* An earlier rule of the sniffer matches: `ftyp` inside the first 64 bytes,
\* or an EBML, RIFF or OggS prefix.
EarlierRule(buf) ==
    \/ \E o \in 0..(FtypWindow - 4) : FtypAt(buf, o)
    \/ \E sig \in {<<26, 69, 223, 163>>, B(<<"R","I","F","F">>), B(<<"O","g","g","S">>)} :
            Len(buf) >= 4 /\ SubSeq(buf, 1, 4) = sig

\* C22: for a readable file of at least 4 bytes sniff_container returns
\* 'mpeg-ts' iff no earlier rule matched and the periodicity test succeeds on
\* the head of up to 4096 bytes; a head shorter than 940 bytes is never
\* 'mpeg-ts', and a leading 0x47 byte without periodicity (and without
\* `ftyp`) gives 'unknown'.
C22_MpegTsIffPeriodic ==
    (pc = "sniffed" /\ file.exists /\ file.readable /\ Len(file.data) >= MinSniffSize) =>
        /\ ~Raised(sniffed)
        /\ (sniffed.v = <<"m","p","e","g","-","t","s">>) <=>
                (~EarlierRule(HeadRead(file.data)) /\ Periodic(HeadRead(file.data)))
        /\ Len(HeadRead(file.data)) < 940 => sniffed.v # <<"m","p","e","g","-","t","s">>
        /\ (file.data[1] = SyncByte /\ ~Periodic(HeadRead(file.data))
                /\ ~EarlierRule(HeadRead(file.data))) => sniffed.v = <<"u","n","k","n","o","w","n">>

\* C22 witness: a 940-byte file whose sync bytes start at offset 187 was
\* sniffed as 'mpeg-ts'.
C22_Witness ==
    /\ pc = "sniffed"
    /\ file.readable
    /\ file.data = TsData(TsPacket * TsPackets, TsPacket - 1, TsPackets, << >>)
    /\ sniffed = [exc |-> NoExc, v |-> <<"m","p","e","g","-","t","s">>]

\* A file whose only periodic sync bytes lie partly beyond the head read is
\* 'unknown'; one that starts with a sync byte and has four packets only is
\* 'unknown' too, and so is a 939-byte file with five sync bytes one packet
\* apart from offset 5 on.
C22_BeyondHeadIsUnknown ==
    (pc = "sniffed" /\ file.readable
        /\ \/ file.data = TsData(HeadLen + TsPacket * TsPackets,
                                 HeadLen - TsPacket * (TsPackets - 1), TsPackets, << >>)
           \/ file.data = TsData(TsPacket * TsPackets, 0, TsPackets - 1, << >>)
           \/ file.data = TsData(TsPacket * TsPackets - 1, 5, TsPackets, << >>)) =>
        sniffed = [exc |-> NoExc, v |-> <<"u","n","k","n","o","w","n">>]

---------------------------------------------------------------------------
\* C23

\* The decoder opened the file, found a video stream and decoded it to the end.
Decoded == pc = "decoded" /\ decoder.open = "ok" /\ decoder.has_video /\ ~decoder.fails

\* The timestamps collected, in seconds: one for every frame that has a pts,
\* provided the stream has a time base.
Collected ==
    LET stamped == SelectSeq(decoder.frames, LAMBDA fr : fr.pts # None)
    IN  IF decoder.time_base = None THEN << >>
        ELSE [i \in 1..Len(stamped) |-> stamped[i].pts.v * decoder.time_base.v]

StreamDurationPresent == decoder.stream_duration # None /\ decoder.time_base # None
ContainerDurationPresent == decoder.container_duration # None

\* C23: decode_video_info takes the duration from the stream when the stream
\* has one (and a time base); else from the container when it has one; else,
\* with at least one timestamp collected, it is last - first, plus 1/fps only
\* when fps was measured; else null.  It is null only when all three sources
\* are absent.
C23_DurationOrder ==
    Decoded =>
        LET d == ret.duration_sec
            span == Collected[Len(Collected)] - Collected[1]
        IN  /\ ~Raised(ret)
            /\ StreamDurationPresent =>
                    d = PyFloat(decoder.stream_duration.v * decoder.time_base.v)
            /\ (~StreamDurationPresent /\ ContainerDurationPresent) =>
                    d = PyFloat(decoder.container_duration.v * AvTimeBase * Scale)
            /\ (~StreamDurationPresent /\ ~ContainerDurationPresent /\ Collected # << >>) =>
                    /\ IsNone(ret.fps) => d = PyFloat(span)
                    /\ ~IsNone(ret.fps) => d = PyFloat(span + FDiv(Scale, ret.fps.v))
            /\ IsNone(d) <=>
                    (~StreamDurationPresent /\ ~ContainerDurationPresent /\ Collected = << >>)

\* fps is measured iff two timestamps or more were collected and the last is
\* later than the first.
C23_FpsMeasured ==
    Decoded =>
        (~IsNone(ret.fps) <=>
            (Len(Collected) >= 2 /\ Collected[Len(Collected)] > Collected[1]))

\* C23 witness: a stream and a container without duration, two frames 80 ms
\* apart: the duration is the span plus one frame period.
C23_Witness ==
    /\ Decoded
    /\ ~StreamDurationPresent /\ ~ContainerDurationPresent
    /\ Collected = <<0, 80>>
    /\ ~IsNone(ret.fps)
    /\ ret.duration_sec = PyFloat(160)

\* A container duration of 0 is used although timestamps were collected.
C23_WitnessZeroContainer ==
    /\ Decoded
    /\ decoder.stream_duration = None /\ decoder.container_duration = PyInt(0)
    /\ Collected = <<0, 80>>
    /\ ret.duration_sec = PyFloat(0)

---------------------------------------------------------------------------
\* C24

\* C24 as claimed: for every name yuv4XXpNN followed by 'le' or 'be'
\* bitdepth_from_pixfmt returns NN, the bit depth per channel.
C24_PlanarYuvDepth ==
    (pc = "measured" /\ arg \in PlanarYuvNames) =>
        ret = PyInt(10 * DigitVal(arg[8]) + DigitVal(arg[9]))

\* What the code returns for these names: the number made of the first two
\* digits of the chroma subsampling (42 or 44).
C24_PlanarYuvSubsamplingDigits ==
    (pc = "measured" /\ arg \in PlanarYuvNames) =>
        ret = PyInt(10 * DigitVal(arg[4]) + DigitVal(arg[5]))

---------------------------------------------------------------------------
\* C27

\* The range entry of the state has a number as min and as max.
NumericRange ==
    /\ IsDict(profile_spec)
    /\ Get(profile_spec, <<"m","i","n">>, Absent) \in NumericBounds
    /\ Get(profile_spec, <<"m","a","x">>, Absent) \in NumericBounds

\* The bounds of the entry as floats, in 1/Scale.
MinOf == float(Get(profile_spec, <<"m","i","n">>, None)).v
MaxOf == float(Get(profile_spec, <<"m","a","x">>, None)).v

\* C27 as claimed: for every range criterion that _in_range evaluated with a
\* numeric min and max, _parse_range_info returns that (min, max) pair from
\* the info text and _expected_from_info shows the midpoint of the two
\* bounds, or the bound when they are equal.
C27_RangeInfoRoundTrip ==
    (pc = "expected" /\ NumericRange /\ ~IsNone(arg.num)) =>
        /\ ret.parsed = [min |-> PyFloat(MinOf), max |-> PyFloat(MaxOf)]
        /\ ret.expected = _format_value(arg.key,
                              PyFloat(IF MinOf = MaxOf THEN MinOf ELSE (MinOf + MaxOf) \div 2))

\* What the GUI does with these info texts: the parts after the first keep
\* their leading blank (' max', ' wert'), so max is never found, and the
\* column of expected values shows min.
C27_MaxIsNeverParsed ==
    (pc = "expected" /\ NumericRange /\ ~IsNone(arg.num)) =>
        /\ ret.parsed = [min |-> PyFloat(MinOf), max |-> None]
        /\ ret.expected = _format_value(arg.key, PyFloat(MinOf))

---------------------------------------------------------------------------
\* C25

\* The Worker threads at work: started, and finished_all not yet delivered to
\* finish_run.
Running == {w \in 1..Len(threads) : threads[w].state = "running"}
FinishPending == Len(SelectSeq(events, LAMBDA e : e.sig = "finished_all"))

\* C25 as claimed: under every interleaving of add_files, run_checks,
\* clear_all and the worker signals at most one Worker thread is running, and
\* 'Prüfen' is disabled exactly while a worker is running (a worker whose
\* finished_all is still queued counts as running).
C25_OneWorkerButtonDisabled ==
    pc = "window" =>
        /\ Cardinality(Running) <= 1
        /\ btn_run <=> (Running = {} /\ FinishPending = 0)

\* Two Worker threads run at once after files were added during a check.
C25_TwoWorkersReached ==
    ~(pc = "window" /\ Cardinality(Running) >= 2 /\ Len(files) = 2)

\* As long as nothing is added while a check runs (one Worker only was ever
\* started by add_files or by the button after the previous one was done),
\* the button is disabled exactly while the worker is at work.
C25_HoldsForOneWorkerAtATime ==
    (pc = "window" /\ Len(threads) <= 1) =>
        /\ Cardinality(Running) <= 1
        /\ btn_run <=> (Running = {} /\ FinishPending = 0)

---------------------------------------------------------------------------
\* C26

\* run_check has returned a payload with a report.
ReportShown == pc \in {"checked", "shown"} /\ ~IsNone(payload.report)

\* C26 as claimed: a report in the payload of run_check was written by the
\* check_media run that just finished for the file, and its status agrees
\* with the exit code: 'passend' with 0, 'failed' with 2.
C26_ReportIsOfThisRun ==
    ReportShown =>
        /\ payload.report.written_by = "this"
        /\ \/ payload.report.validation.status = <<"p","a","s","s","e","n","d">> /\ code = ExitPass
           \/ payload.report.validation.status = <<"f","a","i","l","e","d">> /\ code = ExitFail

\* A report that this run wrote does agree with the exit code.
C26_OwnReportAgrees ==
    (ReportShown /\ payload.report.written_by = "this") =>
        \/ payload.report.validation.status = <<"p","a","s","s","e","n","d">> /\ code = ExitPass
        \/ payload.report.validation.status = <<"f","a","i","l","e","d">> /\ code = ExitFail

\* A 'passend' report of an earlier run is shown with the code 1 of a run
\* that did not find the target-values file.
C26_StaleReportReached ==
    ~(/\ ReportShown
      /\ payload.report.written_by = "earlier"
      /\ payload.report.validation.status = <<"p","a","s","s","e","n","d">>
      /\ ~IsNone(active_profile) /\ profile_file = "missing"
      /\ code = ExitProfileError)

---------------------------------------------------------------------------
\* C28

\* The labels sniff_container returns for the containers the editor's default
\* list is about.
RecognisedLabels == {<<"m","p","4","/","m","o","v">>, <<"m","a","t","r","o","s","k","a","/","w","e","b","m">>, <<"m","p","e","g","-","t","s">>, <<"a","v","i">>}

\* C28 as claimed: every label sniff_container returns for a recognised
\* container passes the dateiformat check against the allow-list of the
\* editor's default target values ('mp4, mov, mkv, ts, mxf, avi, webm').
C28_SniffedLabelIsAllowed ==
    (pc = "format checked" /\ sniffed.v \in RecognisedLabels) =>
        (~Raised(validation) /\ validation.ok)

\* What the code does: of the recognised labels only 'avi' is an item of the
\* default list; 'mp4/mov', 'matroska/webm' and 'mpeg-ts' fail the check.
C28_OnlyAviIsAllowed ==
    (pc = "format checked" /\ sniffed.v \in RecognisedLabels) =>
        (~Raised(validation) /\ validation.counted /\ (validation.ok <=> sniffed.v = <<"a","v","i">>))

\* An MP4 file (`ftyp` at offset 4) fails the default dateiformat check.
C28_Mp4Rejected ==
    ~(/\ pc = "format checked"
      /\ FtypAt(file.data, 4)
      /\ sniffed.v = <<"m","p","4","/","m","o","v">>
      /\ validation = Check(FALSE, <<"'","m","p","4","/","m","o","v","'"," ","n","i","c","h","t"," ","i","n"," ","[","'","m","p","4","'",","," ","'","m","o","v","'",","," ","'","m","k","v","'",","," ","'","t","s","'",","," ","'","m","x","f","'",","," ","'","a","v","i","'",","," ","'","w","e","b","m","'","]">>, TRUE))

---------------------------------------------------------------------------
\* C29

\* file_id of the profile that was built.
FileId == Field(built.prof, <<"f","i","l","e","_","i","d">>)

\* The digest name at the head of the hash text, which is the algorithm that
\* computed it.
ProducedBy(hash) == SubSeq(hash, 1, Find(hash, <<":">>) - 1)

\* C29 as claimed: in every profile with a non-null file_id.hash,
\* file_id.algorithm names the algorithm that produced the hash, also when
\* the requested name is unsupported and the hasher fell back to sha256.
C29_AlgorithmNamesTheHasher ==
    (pc = "built" /\ ~Raised(built) /\ ~IsNone(Field(FileId, <<"h","a","s","h">>))) =>
        Field(FileId, <<"a","l","g","o","r","i","t","h","m">>) = PyStr(ProducedBy(Field(FileId, <<"h","a","s","h">>).v))

\* What the code does: file_id.algorithm is the requested name in lower case,
\* whatever computed the hash.
C29_AlgorithmIsTheRequestedName ==
    (pc = "built" /\ ~Raised(built)) =>
        Field(FileId, <<"a","l","g","o","r","i","t","h","m">>) = PyStr(lower(hash_algo))

\* For a name hashlib knows, in any case of letters, the claim holds.
C29_HoldsForSupportedNames ==
    (pc = "built" /\ ~Raised(built) /\ ~IsNone(Field(FileId, <<"h","a","s","h">>))
        /\ lower(hash_algo) \in HashlibAlgorithms) =>
        Field(FileId, <<"a","l","g","o","r","i","t","h","m">>) = PyStr(ProducedBy(Field(FileId, <<"h","a","s","h">>).v))

\* A profile whose file_id says crc32 over a hash that sha256 computed.
C29_MislabelledHashReached ==
    ~(/\ pc = "built" /\ ~Raised(built)
      /\ hash_algo = <<"c","r","c","3","2">>
      /\ Field(FileId, <<"a","l","g","o","r","i","t","h","m">>) = PyStr(<<"c","r","c","3","2">>)
      /\ ~IsNone(Field(FileId, <<"h","a","s","h">>))
      /\ ProducedBy(Field(FileId, <<"h","a","s","h">>).v) = <<"s","h","a","2","5","6">>)

---------------------------------------------------------------------------
\* C30

\* The criteria the engine counted, and those of them that are not ok.
Counted == {i \in Criteria : CurrentChecks[i].counted}
CountedFails == {i \in Counted : ~CurrentChecks[i].ok}

\* C30: for every report validate_full produces, _compute_fail_ratio returns
\* 'fails/total' with total the number of counted criteria and fails the
\* number of counted criteria with ok=false, and '-' with total 0 when none
\* is counted; the status of the report is 'failed' iff fails >= 1.
C30_FailRatioMatchesVerdict ==
    pc = "ratio" =>
        /\ ~Raised(payload)
        /\ payload.total = Cardinality(Counted)
        /\ Counted = {} => payload.fail_ratio = <<"-">>
        /\ Counted # {} =>
              payload.fail_ratio = NatText(Cardinality(CountedFails)) \o <<"/">>
                                        \o NatText(Cardinality(Counted))
        /\ (validation.status = <<"f","a","i","l","e","d">>) <=> (Cardinality(CountedFails) >= 1)
        /\ validation.status \in {<<"f","a","i","l","e","d">>, <<"p","a","s","s","e","n","d">>}

\* C30 witness: a report with checked and unchecked criteria, one of the
\* checked ones failing, has a ratio of 1 out of fewer than eight.
C30_Witness ==
    /\ pc = "ratio"
    /\ Cardinality(CountedFails) = 1
    /\ Cardinality(Counted) \in 2..(Len(CRITERIA_ORDER) - 1)
    /\ payload.total = Cardinality(Counted)
    /\ validation.status = <<"f","a","i","l","e","d">>

====
